---------------------------- MODULE Spec2Model ----------------------------
(***************************************************************************)
(* State-machine model of the project/task manager in src/src/App.jsx.     *)
(*                                                                         *)
(* The file holds two App components: the cloud App (lines 1-907: schema   *)
(* migration, Supabase sync, realtime feed) and the local-only App (lines  *)
(* 909-1641).  The variable `variant` says which one is running.           *)
(*                                                                         *)
(* Encodings                                                               *)
(*   - a JS string that the code inspects character by character (a task   *)
(*     title, which saveTask trims) is a sequence of one-character strings;*)
(*   - a task's projectId is a tagged JS value [ty, v], because the        *)
(*     migration branches on `typeof`;                                     *)
(*   - an ISO timestamp is a natural number, 0 standing for "" (never      *)
(*     stamped); the clock `now` starts at 1;                              *)
(*   - Array.prototype.findIndex returns a 1-based index, 0 for JS's -1.   *)
(***************************************************************************)
EXTENDS Integers, Sequences, FiniteSets, TLC

VARIABLES
    variant,    \* "cloud" | "local": which App component is mounted
    mounted,    \* "no" | "yes" | "crashed": the App's mount state
    tasks,      \* React state `tasks` (a sequence of task records)
    projects,   \* React state `projects`
    draft,      \* React state `draft` of the task form
    ls,         \* localStorage: [schema, tasks, projects]
    quota,      \* "free" | "tight": whether localStorage.setItem may throw
    session,    \* "none" | "user": what supabase.auth.getSession() holds
    rt,         \* "off" | "subscribed": the realtime channel of the cloud App
    pdraft,     \* React state `draft` of ProjectsManager ("null" when closed)
    pend,       \* continuations of async handlers suspended at an await
    now,        \* the wall clock read by new Date()
    ev,         \* what the last handler did to the outside world
    pf          \* arguments and results of a pure function under test

vars == <<variant, mounted, tasks, projects, draft, ls, quota, session, rt, pdraft, pend, now, ev, pf>>

-----------------------------------------------------------------------------
(* Bounds *)

MaxLen == 3          \* longest list handed to upsertById
MaxStored == 2       \* longest task list found in localStorage at boot
MaxClock == 2        \* last clock value
MaxPending == 1      \* async handlers in flight at once

-----------------------------------------------------------------------------
(* JS values *)

Str(s) == [ty |-> "string", v |-> s]
Undefined == [ty |-> "undefined", v |-> ""]
Null == [ty |-> "null", v |-> ""]
Num(s) == [ty |-> "number", v |-> s]

typeof(x) == IF x.ty = "null" THEN "object" ELSE x.ty

\* a ?? b
Nullish(a, b) == IF a.ty \in {"undefined", "null"} THEN b ELSE a

\* String.prototype.trim on a sequence of characters
Whitespace == {" "}

RECURSIVE TrimStart(_)
TrimStart(s) ==
    IF s # <<>> /\ Head(s) \in Whitespace THEN TrimStart(Tail(s)) ELSE s

RECURSIVE TrimEnd(_)
TrimEnd(s) ==
    IF s # <<>> /\ s[Len(s)] \in Whitespace THEN TrimEnd(SubSeq(s, 1, Len(s) - 1)) ELSE s

trim(s) == TrimEnd(TrimStart(s))

-----------------------------------------------------------------------------
(* upsertById, src/src/App.jsx:44-50 *)

\* list.findIndex(x => x.id === id): the first match, 0 when there is none
findIndex(list, id) ==
    IF \E i \in 1..Len(list) : list[i].id = id
    THEN CHOOSE i \in 1..Len(list) :
            /\ list[i].id = id
            /\ \A j \in 1..(i - 1) : list[j].id # id
    ELSE 0

\* a plausible slip: always append
upsertByIdAppend(list, item) == Append(list, item)

\* a plausible slip: replace every element carrying the id, not the first only
upsertByIdAll(list, item) ==
    IF findIndex(list, item.id) = 0 THEN Append(list, item)
    ELSE [i \in 1..Len(list) |-> IF list[i].id = item.id THEN item ELSE list[i]]

upsertById(list, item) ==
    LET i == findIndex(list, item.id) IN
    IF i = 0 THEN Append(list, item)
    ELSE [list EXCEPT ![i] = item]


-----------------------------------------------------------------------------
(* Records *)

TaskIds == {"t1", "t2"}
ProjIds == {"p1", "p2"}
STATUSES == <<"Todo", "In Progress", "Blocked", "Done">>
StatusSet == {STATUSES[i] : i \in 1..Len(STATUSES)}

EMPTY_TASK == [id |-> "", projectId |-> Str(""), title |-> <<>>, status |-> "Todo", updatedAt |-> 0]
EMPTY_PROJECT == [id |-> "", name |-> <<>>]

-----------------------------------------------------------------------------
(* Local persistence, src/src/App.jsx:15-17 *)

\* A stored item is [kind, val]: "absent" (getItem returns null), "empty" (the
\* empty text), "corrupt" (text JSON.parse rejects), "array" (the JSON text of
\* the array val) or "object" (the JSON text of a value that is not an array,
\* such as {} or null).  The notification settings key holds [kind, email,
\* whatsapp] with the further kinds "null" (the text null) and "settings" (the
\* text of an object with these two fields, "" for a field it lacks).
\* A loaded JS value is [arr, items]: an array of items, or a non-array; null
\* and a settings object are non-arrays told apart by a further field.
JSArray(items) == [arr |-> TRUE, items |-> items]
NonArray == [arr |-> FALSE, items |-> <<>>]
JSNull == [arr |-> FALSE, items |-> <<>>, nul |-> TRUE]
JSSettings(email, whatsapp) == [arr |-> FALSE, items |-> <<>>, email |-> email, whatsapp |-> whatsapp]
\* what a throwing call leaves in place of a value
Raised == [arr |-> FALSE, items |-> <<>>, raised |-> TRUE]

IsSettings(v) == "email" \in DOMAIN v
IsNull(v) == "nul" \in DOMAIN v

JSONstringify(v) ==
    IF IsSettings(v) THEN [kind |-> "settings", email |-> v.email, whatsapp |-> v.whatsapp]
    ELSE IF IsNull(v) THEN [kind |-> "null", email |-> "", whatsapp |-> ""]
    ELSE [kind |-> IF v.arr THEN "array" ELSE "object", val |-> v.items]

\* JSON.parse throws on text that is not JSON
JSONparse(item) ==
    CASE item.kind = "array" -> JSArray(item.val)
      [] item.kind = "settings" -> JSSettings(item.email, item.whatsapp)
      [] item.kind = "null" -> JSNull
      [] item.kind \in {"corrupt", "empty"} -> Raised
      [] OTHER -> NonArray

\* a plausible slip: the parse is not guarded
loadLSNoCatch(store, k, f) ==
    IF store[k].kind \in {"absent", "empty"} THEN f ELSE JSONparse(store[k])

\* loadLS(k, f): r ? JSON.parse(r) : f, and f when that throws
loadLS(store, k, f) ==
    IF store[k].kind \in {"absent", "empty"} THEN f
    ELSE LET v == JSONparse(store[k]) IN IF v = Raised THEN f ELSE v

\* a plausible slip: the write is reported done but stores nothing
saveLSDropped(store, k, v, ok) == store

\* saveLS(k, v): setItem of the JSON text; a throwing setItem (ok = FALSE) is swallowed
saveLS(store, k, v, ok) ==
    IF ok THEN [store EXCEPT ![k] = JSONstringify(v)] ELSE store

\* whether a localStorage.setItem may succeed / throw under the current quota
WriteOutcomes == IF quota = "free" THEN {TRUE} ELSE BOOLEAN

-----------------------------------------------------------------------------
(* Schema migration, src/src/App.jsx:20-32 *)

SCHEMA_VERSION == 2

\* what localStorage.getItem(SCHEMA_KEY) may hold
SchemaItems == {"absent", "0", "1", "2", "3", "x"}

NaN == [nan |-> TRUE, n |-> 0]
NumOf(n) == [nan |-> FALSE, n |-> n]

\* Number(localStorage.getItem(SCHEMA_KEY) || 1)
SchemaNumber(item) ==
    CASE item = "absent" -> NumOf(1)
      [] item = "0" -> NumOf(0)
      [] item = "1" -> NumOf(1)
      [] item = "2" -> NumOf(2)
      [] item = "3" -> NumOf(3)
      [] OTHER -> NaN

\* String(n)
String(n) ==
    CASE n = 0 -> "0" [] n = 1 -> "1" [] n = 2 -> "2" [] n = 3 -> "3" [] OTHER -> "x"

\* cur >= k, false when cur is NaN
GE(cur, k) == ~cur.nan /\ cur.n >= k

\* the rewrite of one task, lines 25-29
migrateTask(t) ==
    [t EXCEPT !.projectId = IF typeof(t.projectId) = "string" THEN t.projectId
                            ELSE Nullish(t.projectId, Str(""))]

NoThrow(t, p, fresh, store, wrote) ==
    [threw |-> FALSE, tasks |-> t, projects |-> p, fresh |-> fresh, store |-> store, wrote |-> wrote]
Threw(store) ==
    [threw |-> TRUE, tasks |-> NonArray, projects |-> NonArray, fresh |-> FALSE, store |-> store, wrote |-> FALSE]

\* a plausible slip: > where >= is meant
runMigrationsOffByOne(t0, p0, store, ok) ==
    LET cur == SchemaNumber(store.schema) IN
    IF ~cur.nan /\ cur.n > SCHEMA_VERSION THEN NoThrow(t0, p0, FALSE, store, FALSE)
    ELSE IF ~t0.arr \/ ~ok THEN Threw(store)
    ELSE NoThrow(JSArray([i \in 1..Len(t0.items) |-> migrateTask(t0.items[i])]), p0, TRUE,
                 [store EXCEPT !.schema = String(SCHEMA_VERSION)], TRUE)

\* runMigrations(tasks, projects) against the storage `store`; ok says whether
\* the setItem of line 30 succeeds.  The result carries the returned lists,
\* `fresh` (the returned task array is a new array: m.tasks !== t0), the storage
\* afterwards and whether it was written.  tasks.map throws on a non-array.
runMigrations(t0, p0, store, ok) ==
    LET cur == SchemaNumber(store.schema) IN
    IF GE(cur, SCHEMA_VERSION) THEN NoThrow(t0, p0, FALSE, store, FALSE)
    ELSE IF ~t0.arr \/ ~ok THEN Threw(store)
    ELSE NoThrow(JSArray([i \in 1..Len(t0.items) |-> migrateTask(t0.items[i])]), p0, TRUE,
                 [store EXCEPT !.schema = String(SCHEMA_VERSION)], TRUE)

-----------------------------------------------------------------------------
(* Values the variables hold while a specification leaves them alone *)

NoEvent == [op |-> "none"]
NoCall == [fn |-> "none"]
NoSettings == [kind |-> "absent", email |-> "", whatsapp |-> ""]
EmptyLS == [schema |-> "absent", tasks |-> [kind |-> "absent", val |-> <<>>],
            projects |-> [kind |-> "absent", val |-> <<>>], notify |-> NoSettings]

SeqsUpTo(S, n) == UNION {[1..k -> S] : k \in 0..n}

-----------------------------------------------------------------------------
(* SpecUpsert: upsertById applied once and then again with the same item *)

UpsertIds == {"a", "b"}
UpsertVals == {"x", "y"}
UpsertItems == [id : UpsertIds, val : UpsertVals]

InitUpsert ==
    /\ variant = "cloud" /\ mounted = "no"
    /\ tasks = <<>> /\ projects = <<>> /\ draft = EMPTY_TASK
    /\ ls = EmptyLS /\ quota = "free" /\ session = "none"
    /\ rt = "off" /\ pdraft = "null"
    /\ pend = <<>> /\ now = 1 /\ ev = NoEvent
    /\ \E l \in SeqsUpTo(UpsertItems, MaxLen), it \in UpsertItems :
          pf = [fn |-> "upsertById", list |-> l, item |-> it, stage |-> 0,
                once |-> <<>>, twice |-> <<>>]

AppUnchanged == UNCHANGED <<variant, mounted, tasks, projects, draft, ls, quota, session, rt, pdraft, pend, now, ev>>

ApplyUpsert ==
    /\ pf.fn = "upsertById" /\ pf.stage = 0
    /\ pf' = [pf EXCEPT !.once = upsertById(pf.list, pf.item), !.stage = 1]
    /\ AppUnchanged

ApplyUpsertAgain ==
    /\ pf.fn = "upsertById" /\ pf.stage = 1
    /\ pf' = [pf EXCEPT !.twice = upsertById(pf.once, pf.item), !.stage = 2]
    /\ AppUnchanged

NextUpsert == ApplyUpsert \/ ApplyUpsertAgain

SpecUpsert == InitUpsert /\ [][NextUpsert]_vars

(* C1: upsertById(list, item) replaces the first element carrying item's id,
   keeping the length and every other position, and appends item at the end
   when no element carries that id. *)
C1_UpsertReplacesFirstOrAppends ==
    (pf.fn = "upsertById" /\ pf.stage >= 1) =>
        LET l == pf.list
            it == pf.item
            r == pf.once
            hits == {i \in 1..Len(l) : l[i].id = it.id}
        IN IF hits # {}
           THEN /\ Len(r) = Len(l)
                /\ \E i \in hits :
                      /\ \A j \in hits : i <= j
                      /\ r[i] = it
                      /\ \A k \in 1..Len(l) : k # i => r[k] = l[k]
           ELSE /\ Len(r) = Len(l) + 1
                /\ r[Len(r)] = it
                /\ \A k \in 1..Len(l) : r[k] = l[k]

\* the id occurs twice and the first occurrence alone was replaced
C1_Witness ==
    /\ pf.fn = "upsertById" /\ pf.stage >= 1
    /\ Cardinality({i \in 1..Len(pf.list) : pf.list[i].id = pf.item.id}) = 2
    /\ \E i \in 1..Len(pf.list) : pf.list[i].id = pf.item.id /\ pf.once[i] # pf.item
    /\ pf.once # pf.list

(* C2: upsertById is idempotent: applying the same item a second time gives
   the list the first application gave. *)
C2_UpsertIdempotent ==
    (pf.fn = "upsertById" /\ pf.stage = 2) => pf.twice = pf.once

\* the id was present: the first application changed the list, the second did not
C2_Witness ==
    /\ pf.fn = "upsertById" /\ pf.stage = 2
    /\ findIndex(pf.list, pf.item.id) > 0
    /\ pf.once # pf.list

-----------------------------------------------------------------------------
(* SpecMig: runMigrations run on a stored schema item and a loaded task list,
   and then run again on what the first run returned *)

\* what a task's projectId may be in a list written by an earlier version
StoredProjectIds == {Undefined, Null, Num("5"), Str(""), Str("p1")}

StoredTasks ==
    {[id |-> i, projectId |-> p, title |-> <<"a">>, status |-> "Todo", updatedAt |-> 0] :
        i \in TaskIds, p \in StoredProjectIds}

LoadedTaskLists == {JSArray(l) : l \in SeqsUpTo(StoredTasks, MaxStored)} \cup {NonArray}

InitMig ==
    /\ variant = "cloud" /\ mounted = "no"
    /\ tasks = <<>> /\ projects = <<>> /\ draft = EMPTY_TASK
    /\ quota \in {"free", "tight"} /\ session = "none"
    /\ rt = "off" /\ pdraft = "null"
    /\ pend = <<>> /\ now = 1 /\ ev = NoEvent
    /\ \E item \in SchemaItems, t0 \in LoadedTaskLists :
          /\ ls = [EmptyLS EXCEPT !.schema = item]
          /\ pf = [fn |-> "runMigrations", schema0 |-> item, t0 |-> t0, p0 |-> JSArray(<<>>),
                   stage |-> 0, r1 |-> Threw(EmptyLS), r2 |-> Threw(EmptyLS)]

MigUnchanged == UNCHANGED <<variant, mounted, tasks, projects, draft, quota, session, rt, pdraft, pend, now, ev>>

RunMigrations ==
    /\ pf.fn = "runMigrations" /\ pf.stage = 0
    /\ \E ok \in WriteOutcomes :
          LET r == runMigrations(pf.t0, pf.p0, ls, ok) IN
          /\ pf' = [pf EXCEPT !.r1 = r, !.stage = 1]
          /\ ls' = r.store
    /\ MigUnchanged

RunMigrationsAgain ==
    /\ pf.fn = "runMigrations" /\ pf.stage = 1 /\ ~pf.r1.threw
    /\ \E ok \in WriteOutcomes :
          LET r == runMigrations(pf.r1.tasks, pf.r1.projects, ls, ok) IN
          /\ pf' = [pf EXCEPT !.r2 = r, !.stage = 2]
          /\ ls' = r.store
    /\ MigUnchanged

NextMig == RunMigrations \/ RunMigrationsAgain

SpecMig == InitMig /\ [][NextMig]_vars

(* C6: when the stored schema version is below 2, every task runMigrations
   returns has a string projectId: the original value if it was a string, the
   empty string if it was absent, null or of any other type. *)
C6_MigratedProjectIdIsString ==
    (pf.fn = "runMigrations" /\ pf.stage >= 1 /\ ~pf.r1.threw
        /\ ~GE(SchemaNumber(pf.schema0), SCHEMA_VERSION)) =>
        /\ Len(pf.r1.tasks.items) = Len(pf.t0.items)
        /\ \A i \in 1..Len(pf.t0.items) :
              LET before == pf.t0.items[i].projectId
                  after == pf.r1.tasks.items[i].projectId
              IN /\ typeof(after) = "string"
                 /\ after = IF typeof(before) = "string" THEN before ELSE Str("")

(* C7: when the stored schema version is 2 or higher, runMigrations returns
   the very lists it was given and writes nothing; and a second run, whatever
   the first one did, returns exactly what the first run returned. *)
C7_MigrationNoOpAtCurrentVersion ==
    (pf.fn = "runMigrations" /\ pf.stage >= 1) =>
        /\ GE(SchemaNumber(pf.schema0), SCHEMA_VERSION) =>
              /\ ~pf.r1.threw /\ ~pf.r1.fresh /\ ~pf.r1.wrote
              /\ pf.r1.tasks = pf.t0 /\ pf.r1.projects = pf.p0
              /\ pf.r1.store.schema = pf.schema0
        /\ pf.stage = 2 =>
              /\ ~pf.r2.threw /\ ~pf.r2.fresh /\ ~pf.r2.wrote
              /\ pf.r2.tasks = pf.r1.tasks /\ pf.r2.projects = pf.r1.projects
              /\ pf.r2.store = pf.r1.store

\* two runs at version 2 over a task the rewrite would have changed
C7_Witness ==
    /\ pf.fn = "runMigrations" /\ pf.stage = 2
    /\ pf.schema0 = "2"
    /\ \E i \in 1..Len(pf.t0.items) : migrateTask(pf.t0.items[i]) # pf.t0.items[i]
    /\ pf.r2.tasks = pf.t0

-----------------------------------------------------------------------------
(* The mounted App: handlers of src/src/App.jsx *)

\* a || d on a string, "" being falsy
Or(s, d) == IF s = "" THEN d ELSE s

\* a || "" on a JS value: undefined, null and "" are falsy
OrEmpty(x) == IF x.ty \in {"undefined", "null"} THEN Str("") ELSE x

\* What a handler did to the outside world: the alert it raised or the outcome
\* it had (out), the notifications it handed to sendNotification (notes) and
\* the remote calls it issued (calls).
Ev(op, id, out, notes, calls) ==
    [op |-> op, id |-> id, out |-> out, notes |-> notes, calls |-> calls]

\* notifyTaskSaved(task, isNew), lines 78-82 and 971-975
notifyTaskSaved(id, isNew) ==
    [channel |-> "email", kind |-> IF isNew THEN "New task" ELSE "Task updated",
     id |-> id, from |-> "", to |-> ""]

\* notifyStatusChange(task, oldS, newS), lines 83-87 and 976-980
notifyStatusChange(id, oldS, newS) ==
    [channel |-> "whatsapp", kind |-> "Status", id |-> id, from |-> oldS, to |-> newS]

\* The persistence effects, lines 737-738 and 1539-1540: after a render in
\* which `tasks` (`projects`) is a new array, saveLS writes it.
PersistEffects(tasksTouched, projectsTouched) ==
    \E okT \in WriteOutcomes, okP \in WriteOutcomes :
        ls' = LET s1 == IF tasksTouched THEN saveLS(ls, "tasks", JSArray(tasks'), okT) ELSE ls
              IN IF projectsTouched THEN saveLS(s1, "projects", JSArray(projects'), okP) ELSE s1

\* An async handler of the cloud App suspended at its await
Op(h, id, isNew) == [h |-> h, id |-> id, isNew |-> isNew, pc |-> "getSession"]

\* The handler's async tail: the cloud App suspends at `await getSession()`,
\* the local-only App has no tail.
Suspend(op) ==
    IF variant = "cloud" THEN pend' = Append(pend, op) ELSE pend' = pend

CanStart == variant = "cloud" => Len(pend) < MaxPending

Mounted == mounted = "yes"

(* ---- saveTask, lines 824-834 (cloud) and 1560-1568 (local-only) ---- *)

\* a plausible slip: the title is tested without being trimmed
blankTitleNoTrim(task) == task.title = <<>>

\* const title = (task.title || "").trim(); if (!title) ...
blankTitle(task) == trim(task.title) = <<>>

\* { ...EMPTY_TASK, ...task, id: task.id || uid(), title, status: task.status || "Todo", updatedAt }
normalize(task, fresh, ts) ==
    [task EXCEPT !.id = Or(task.id, fresh), !.title = trim(task.title),
                 !.status = Or(task.status, "Todo"), !.updatedAt = ts]

\* a plausible slip: the saved task is only handed to the remote store
savedListForgotten(prev, item) == prev

\* a plausible slip: a saved task is always appended
savedListAppend(prev, item) == Append(prev, item)

\* prev.some(x => x.id === item.id) ? prev.map(x => x.id === item.id ? item : x) : [...prev, item]
savedList(prev, item) ==
    IF \E i \in 1..Len(prev) : prev[i].id = item.id
    THEN [i \in 1..Len(prev) |-> IF prev[i].id = item.id THEN item ELSE prev[i]]
    ELSE Append(prev, item)

\* saveTask(task); `fresh` is what uid() returns
SaveTask(task, fresh) ==
    /\ Mounted /\ CanStart
    /\ IF blankTitle(task)
       THEN /\ ev' = Ev("saveTask", task.id, "alert: enter a title", <<>>, <<>>)
            /\ UNCHANGED <<tasks, projects, draft, ls, pend>>
       ELSE LET normalized == normalize(task, fresh, now)
                isNew == ~\E i \in 1..Len(tasks) : tasks[i].id = normalized.id
            IN /\ tasks' = savedList(tasks, normalized)
               /\ projects' = projects
               /\ draft' = EMPTY_TASK
               /\ PersistEffects(TRUE, FALSE)
               /\ Suspend(Op("saveTask", normalized.id, isNew))
               /\ ev' = Ev("saveTask", normalized.id, "saved",
                           IF variant = "cloud" THEN <<>>
                           ELSE <<notifyTaskSaved(normalized.id, isNew)>>, <<>>)
    /\ UNCHANGED <<variant, mounted, quota, session, rt, pdraft, now, pf>>

(* ---- deleteTask, lines 835-838 (cloud) and 1569 (local-only) ---- *)

removeById(prev, id) == SelectSeq(prev, LAMBDA x : x.id # id)

DeleteTask(id) ==
    /\ Mounted /\ CanStart
    /\ tasks' = removeById(tasks, id)
    /\ projects' = projects
    /\ draft' = EMPTY_TASK
    /\ PersistEffects(TRUE, FALSE)
    /\ Suspend(Op("deleteTask", id, FALSE))
    /\ ev' = Ev("deleteTask", id, "deleted", <<>>, <<>>)
    /\ UNCHANGED <<variant, mounted, quota, session, rt, pdraft, now, pf>>

(* ---- ProjectsManager onSave / onDelete, lines 474-484 (cloud) and 1221-1222 (local-only) ---- *)

ProjectSave(p) ==
    /\ Mounted /\ CanStart
    /\ projects' = savedList(projects, p)
    /\ tasks' = tasks
    /\ pdraft' = "null"
    /\ PersistEffects(FALSE, TRUE)
    /\ Suspend(Op("saveProject", p.id, FALSE))
    /\ ev' = Ev("saveProject", p.id, "saved", <<>>, <<>>)
    /\ UNCHANGED <<variant, mounted, draft, quota, session, rt, now, pf>>

\* a plausible slip: the project's tasks are deleted with it
dropProjectTasks(prev, id) == SelectSeq(prev, LAMBDA t : t.projectId # Str(id))

\* prev.map(t => t.projectId === id ? { ...t, projectId: "" } : t)
clearProjectRef(prev, id) ==
    [i \in 1..Len(prev) |->
        IF prev[i].projectId = Str(id) THEN [prev[i] EXCEPT !.projectId = Str("")] ELSE prev[i]]

ProjectDelete(id) ==
    /\ Mounted /\ CanStart
    /\ projects' = removeById(projects, id)
    /\ tasks' = IF variant = "cloud" THEN clearProjectRef(tasks, id) ELSE tasks
    /\ pdraft' = "null"
    /\ PersistEffects(variant = "cloud", TRUE)
    /\ Suspend(Op("deleteProject", id, FALSE))
    /\ ev' = Ev("deleteProject", id, "deleted", <<>>, <<>>)
    /\ UNCHANGED <<variant, mounted, draft, quota, session, rt, now, pf>>

(* ---- KanbanBoard.onDropTo, lines 319-329 (cloud) and 1138-1148 (local-only) ---- *)

\* a plausible slip: the timestamp is left as it was
droppedNoStamp(x, status, ts) == [x EXCEPT !.status = status]

\* { ...x, status, updatedAt: new Date().toISOString() }
dropped(x, status, ts) == [x EXCEPT !.status = status, !.updatedAt = ts]

\* a plausible slip: the notification is built from the task after the move
oldStatusAfterMove(t, status) == status

\* const old = t.status || "Todo"
oldStatus(t, status) == Or(t.status, "Todo")

OnDropTo(status, id) ==
    /\ Mounted
    /\ LET i == findIndex(tasks, id) IN
       IF i = 0 \/ tasks[i].status = status
       THEN /\ tasks' = tasks /\ ls' = ls
            /\ ev' = Ev("onDropTo", id, "ignored", <<>>, <<>>)
       ELSE /\ tasks' = [k \in 1..Len(tasks) |->
                            IF tasks[k].id = id THEN dropped(tasks[k], status, now) ELSE tasks[k]]
            /\ PersistEffects(TRUE, FALSE)
            \* queueMicrotask(() => onStatusChanged({...t, status}, old, status))
            /\ ev' = Ev("onDropTo", id, "moved",
                        <<notifyStatusChange(id, oldStatus(tasks[i], status), status)>>, <<>>)
    /\ UNCHANGED <<variant, mounted, projects, draft, quota, session, rt, pdraft, pend, now, pf>>

(* ---- Realtime handlers of the cloud App, lines 779-817 ---- *)

Subscribed == Mounted /\ variant = "cloud" /\ rt = "subscribed"

\* the project built from payload.new, lines 782-788
rowToProject(row) == [id |-> row.id, name |-> row.name]

\* the task built from payload.new, lines 799-811
rowToTask(row) ==
    [id |-> row.id, projectId |-> OrEmpty(row.project_id), title |-> row.title,
     status |-> Or(row.status, "Todo"), updatedAt |-> row.updated_at]

RealtimeProjects(eventType, row) ==
    /\ Subscribed
    /\ IF eventType \in {"INSERT", "UPDATE"}
       THEN /\ projects' = upsertById(projects, rowToProject(row))
            /\ tasks' = tasks
            /\ PersistEffects(FALSE, TRUE)
       ELSE \* DELETE: payload.old.id
            /\ projects' = removeById(projects, row.id)
            /\ tasks' = clearProjectRef(tasks, row.id)
            /\ PersistEffects(TRUE, TRUE)
    /\ ev' = Ev("realtime projects", row.id, eventType, <<>>, <<>>)
    /\ UNCHANGED <<variant, mounted, draft, quota, session, rt, pdraft, pend, now, pf>>

RealtimeTasks(eventType, row) ==
    /\ Subscribed
    /\ IF eventType \in {"INSERT", "UPDATE"}
       THEN tasks' = upsertById(tasks, rowToTask(row))
       ELSE tasks' = removeById(tasks, row.id)
    /\ projects' = projects
    /\ PersistEffects(TRUE, FALSE)
    /\ ev' = Ev("realtime tasks", row.id, eventType, <<>>, <<>>)
    /\ UNCHANGED <<variant, mounted, draft, quota, session, rt, pdraft, pend, now, pf>>

(* ---- The async tails of saveTask, deleteTask, onSave, onDelete:
        try { const s = await getSession(); if (s?.user) await <remote>(x); } catch {}
        lines 832, 837, 477, 483 ---- *)

RemoteFn(h) ==
    CASE h = "saveTask" -> "upsertTask"
      [] h = "deleteTask" -> "cloudDeleteTask"
      [] h = "saveProject" -> "upsertProject"
      [] OTHER -> "cloudDeleteProject"

RemoveAt(s, i) == SubSeq(s, 1, i - 1) \o SubSeq(s, i + 1, Len(s))

\* a plausible slip: a failed sync undoes the optimistic update
caughtRollback(list, op) == removeById(list, op.id)

\* catch {}: the local list is what it was
caught(list, op) == list

\* what follows the try/catch: saveTask notifies (line 833), the others return
AfterTry(op) ==
    IF op.h = "saveTask" THEN <<notifyTaskSaved(op.id, op.isNew)>> ELSE <<>>

\* `await getSession()` settles: it rejects ("throws") or resolves with the
\* session the client holds
SessionStep(i, outcome) ==
    /\ Mounted /\ i \in 1..Len(pend) /\ pend[i].pc = "getSession"
    /\ outcome \in {"throws", "resolved"}
    /\ LET op == pend[i] IN
       IF outcome = "throws"
       THEN /\ pend' = RemoveAt(pend, i)
            /\ tasks' = caught(tasks, op) /\ projects' = caught(projects, op)
            /\ ev' = Ev("getSession", op.id, "throws", AfterTry(op), <<>>)
       ELSE IF session = "user"
       THEN /\ pend' = [pend EXCEPT ![i].pc = "remote"]
            /\ UNCHANGED <<tasks, projects>>
            /\ ev' = Ev("getSession", op.id, "user", <<>>, <<>>)
       ELSE /\ pend' = RemoveAt(pend, i)
            /\ UNCHANGED <<tasks, projects>>
            /\ ev' = Ev("getSession", op.id, "no session", AfterTry(op), <<>>)
    /\ PersistEffects(tasks' # tasks, projects' # projects)
    /\ UNCHANGED <<variant, mounted, draft, quota, session, rt, pdraft, now, pf>>

\* The remote helper runs: upsertTask and upsertProject first look the session
\* up again (lines 123, 135), which may throw before any request leaves; then
\* the request is issued and succeeds ("ok") or is answered with an error.
RemoteOutcomes(h) ==
    IF h \in {"saveTask", "saveProject"} THEN {"ok", "error", "lookup throws"} ELSE {"ok", "error"}

RemoteStep(i, outcome) ==
    /\ Mounted /\ i \in 1..Len(pend) /\ pend[i].pc = "remote"
    /\ outcome \in RemoteOutcomes(pend[i].h)
    /\ LET op == pend[i]
           issued == IF outcome = "lookup throws" THEN <<>>
                     ELSE <<[fn |-> RemoteFn(op.h), id |-> op.id, user |-> session]>>
       IN /\ pend' = RemoveAt(pend, i)
          /\ IF outcome = "ok"
             THEN UNCHANGED <<tasks, projects>>
             ELSE tasks' = caught(tasks, op) /\ projects' = caught(projects, op)
          /\ ev' = Ev(RemoteFn(op.h), op.id, outcome, AfterTry(op), issued)
    /\ PersistEffects(tasks' # tasks, projects' # projects)
    /\ UNCHANGED <<variant, mounted, draft, quota, session, rt, pdraft, now, pf>>

\* time passes
Tick ==
    /\ now < MaxClock
    /\ now' = now + 1
    /\ UNCHANGED <<variant, mounted, tasks, projects, draft, ls, quota, session, rt, pdraft, pend, ev, pf>>

-----------------------------------------------------------------------------
(* The states a mounted App starts from.  Each specification below runs the
   App under the operations its claims are about, from every seed: a task and
   a project list as an earlier session may have left them (ids unique,
   every project reference empty or naming a listed project). *)

StoredArray(items) == JSONstringify(JSArray(items))

\* lists of at most one element per id, in either order
UniqueLists(Items) ==
    {l \in SeqsUpTo(Items, 2) : \A i, j \in 1..Len(l) : l[i].id = l[j].id => i = j}

Seeded(taskSeeds, projectSeeds, variants) ==
    /\ variant \in variants
    /\ mounted = "yes"
    /\ projects \in projectSeeds
    /\ tasks \in {l \in taskSeeds :
                    \A i \in 1..Len(l) :
                        \/ l[i].projectId = Str("")
                        \/ \E k \in 1..Len(projects) : l[i].projectId = Str(projects[k].id)}
    /\ draft = EMPTY_TASK /\ pdraft = "null"
    /\ ls = [schema |-> IF variant = "cloud" THEN String(SCHEMA_VERSION) ELSE "absent",
             tasks |-> StoredArray(tasks), projects |-> StoredArray(projects),
             notify |-> NoSettings]
    /\ quota = "free"
    /\ session \in IF variant = "cloud" THEN {"none", "user"} ELSE {"none"}
    /\ rt = IF variant = "cloud" /\ session = "user" THEN "subscribed" ELSE "off"
    /\ pend = <<>> /\ now = 1
    /\ ev = NoEvent /\ pf = NoCall

Variants == {"cloud", "local"}

\* the async tails settle
Settle ==
    \/ \E i \in 1..MaxPending, o \in {"throws", "resolved"} : SessionStep(i, o)
    \/ \E i \in 1..MaxPending, o \in {"ok", "error", "lookup throws"} : RemoteStep(i, o)

-----------------------------------------------------------------------------
(* SpecForm: the task form's Save and Delete *)

\* what the task form may hold when Save is clicked
DraftTitles == {<<>>, <<" ">>, <<" ", " ">>, <<" ", "a", " ">>}
DraftInputs ==
    [id : {""} \cup TaskIds, projectId : {Str("")}, title : DraftTitles,
     status : {"", "Todo", "Done"}, updatedAt : {0}]

InitForm == Seeded({<<>>}, {<<>>}, Variants)

NextForm ==
    \/ \E task \in DraftInputs, fresh \in TaskIds : SaveTask(task, fresh)
    \/ \E id \in TaskIds : DeleteTask(id)
    \/ Settle

SpecForm == InitForm /\ [][NextForm]_vars

\* every character is whitespace (the empty title included)
IsBlank(title) == \A i \in 1..Len(title) : title[i] \in Whitespace

(* C3: saving a draft whose title is empty or whitespace-only is rejected and
   leaves the task list unchanged. *)
C3_BlankTitleRejected ==
    [][\A task \in DraftInputs, fresh \in TaskIds :
          (IsBlank(task.title) /\ SaveTask(task, fresh)) =>
              /\ tasks' = tasks
              /\ ev'.out = "alert: enter a title"
              /\ pend' = pend /\ ls' = ls]_vars

\* a whitespace-only save was just rejected while the list holds a task
C3_Witness ==
    /\ ev.op = "saveTask" /\ ev.out = "alert: enter a title"
    /\ Len(tasks) >= 1

-----------------------------------------------------------------------------
(* SpecProjects: project save and delete, through the form and through the
   realtime feed, over tasks that reference projects *)

ProjectInputs == [id : ProjIds, name : {<<"W">>}]
ProjectSeeds == UniqueLists(ProjectInputs)

RefTaskSeeds ==
    UniqueLists([id : TaskIds, projectId : {Str(""), Str("p1"), Str("p2")}, title : {<<"a">>},
                 status : {"Todo"}, updatedAt : {0}])

\* rows the realtime feed may deliver
EventTypes == {"INSERT", "UPDATE", "DELETE"}
ProjectRows == [id : ProjIds, name : {<<"W">>}]
RefTaskRows ==
    [id : TaskIds, project_id : {Null, Str("p1"), Str("p2")}, title : {<<"a">>},
     status : {""}, updated_at : {0}]

InitProjects == Seeded(RefTaskSeeds, ProjectSeeds, Variants)

NextProjects ==
    \/ \E p \in ProjectInputs : ProjectSave(p)
    \/ \E id \in ProjIds : ProjectDelete(id)
    \/ \E e \in EventTypes, row \in ProjectRows : RealtimeProjects(e, row)
    \/ \E e \in EventTypes, row \in RefTaskRows : RealtimeTasks(e, row)
    \/ Settle

SpecProjects == InitProjects /\ [][NextProjects]_vars

\* the list without the elements carrying id, order kept
Without(list, id) == SelectSeq(list, LAMBDA x : x.id # id)

\* task lists agree except that references to project id became ""
RefsCleared(before, after, id) ==
    /\ Len(after) = Len(before)
    /\ \A i \in 1..Len(before) :
          after[i] = IF before[i].projectId = Str(id)
                     THEN [before[i] EXCEPT !.projectId = Str("")]
                     ELSE before[i]

(* C4: deleting project P through the project form removes P from the project
   list and empties the project reference of every task that referenced P; no
   task is removed and the other tasks are unchanged. *)
C4_FormDeleteCascades ==
    [][\A id \in ProjIds :
          ProjectDelete(id) =>
              /\ projects' = Without(projects, id)
              /\ RefsCleared(tasks, tasks', id)]_vars

(* C5 as stated: a realtime DELETE removes the entity carrying the old id from
   its list; a project DELETE also empties the reference of every task that
   referenced it, removing no task; a DELETE for an id not present leaves both
   lists unchanged. *)
C5_RealtimeDeleteAsStated ==
    [][/\ \A row \in ProjectRows :
            RealtimeProjects("DELETE", row) =>
                /\ projects' = Without(projects, row.id)
                /\ RefsCleared(tasks, tasks', row.id)
                /\ (\A k \in 1..Len(projects) : projects[k].id # row.id) =>
                        (projects' = projects /\ tasks' = tasks)
       /\ \A row \in RefTaskRows :
            RealtimeTasks("DELETE", row) =>
                /\ tasks' = Without(tasks, row.id)
                /\ projects' = projects
                /\ (\A k \in 1..Len(tasks) : tasks[k].id # row.id) => tasks' = tasks]_vars

(* C5 amended: as stated, except that a DELETE for an id not present leaves
   the list of that entity unchanged: a project DELETE still empties the
   reference of every task that references the id, listed project or not. *)
C5_RealtimeDelete ==
    [][/\ \A row \in ProjectRows :
            RealtimeProjects("DELETE", row) =>
                /\ projects' = Without(projects, row.id)
                /\ RefsCleared(tasks, tasks', row.id)
                /\ (\A k \in 1..Len(projects) : projects[k].id # row.id) => projects' = projects
       /\ \A row \in RefTaskRows :
            RealtimeTasks("DELETE", row) =>
                /\ tasks' = Without(tasks, row.id)
                /\ projects' = projects
                /\ (\A k \in 1..Len(tasks) : tasks[k].id # row.id) => tasks' = tasks]_vars

\* a project DELETE just arrived, its project is gone, and a task that
\* referenced it is still listed with an empty reference beside a task of
\* another project
C5_Witness ==
    /\ ev.op = "realtime projects" /\ ev.out = "DELETE"
    /\ \A k \in 1..Len(projects) : projects[k].id # ev.id
    /\ Len(projects) = 1 /\ Len(tasks) = 2
    /\ \E i, j \in 1..Len(tasks) :
          /\ tasks[i].projectId = Str("") /\ tasks[i].updatedAt = 0
          /\ tasks[j].projectId = Str(projects[1].id)

-----------------------------------------------------------------------------
(* SpecBoard: cards dropped on the kanban lanes while time passes and the
   realtime feed delivers tasks *)

\* the lanes, STATUSES.map(...) at lines 336 and 1155
Lanes == StatusSet

BoardTaskSeeds ==
    UniqueLists([id : TaskIds, projectId : {Str("")}, title : {<<"a">>},
                 status : StatusSet, updatedAt : {0}])

\* remote rows: no status, or one the board has no lane for
BoardRows ==
    [id : TaskIds, project_id : {Null}, title : {<<"a">>},
     status : {"", "Review"}, updated_at : {0}]

InitBoard == Seeded(BoardTaskSeeds, {<<>>}, Variants)

NextBoard ==
    \/ \E status \in Lanes, id \in TaskIds : OnDropTo(status, id)
    \/ \E row \in BoardRows : RealtimeTasks("INSERT", row)
    \/ Tick

SpecBoard == InitBoard /\ [][NextBoard]_vars

(* C9: dropping the card of a task with status S on the lane of another
   status S' sets that task's status to S', stamps it with the current time,
   leaves every other task unchanged and sends exactly one status-change
   notification carrying (from = S, to = S'). *)
C9_DropMovesStampsNotifiesOnce ==
    [][\A status \in Lanes, id \in TaskIds :
          \A i \in 1..Len(tasks) :
              (tasks[i].id = id /\ tasks[i].status # status /\ OnDropTo(status, id)) =>
                  /\ Len(tasks') = Len(tasks)
                  /\ tasks'[i] = [tasks[i] EXCEPT !.status = status, !.updatedAt = now]
                  /\ \A k \in 1..Len(tasks) : k # i => tasks'[k] = tasks[k]
                  /\ Len(ev'.notes) = 1
                  /\ ev'.notes[1].kind = "Status" /\ ev'.notes[1].id = id
                  /\ ev'.notes[1].from = tasks[i].status /\ ev'.notes[1].to = status]_vars

\* a card went from Todo to Done at time 2, beside a task that kept its stamp
C9_Witness ==
    /\ ev.op = "onDropTo" /\ ev.out = "moved"
    /\ Len(ev.notes) = 1 /\ ev.notes[1].from = "Todo" /\ ev.notes[1].to = "Done"
    /\ now = 2 /\ Len(tasks) = 2
    /\ \E i, k \in 1..Len(tasks) :
          /\ tasks[i].id = ev.id /\ tasks[i].status = "Done" /\ tasks[i].updatedAt = 2
          /\ k # i /\ tasks[k].updatedAt = 0

-----------------------------------------------------------------------------
(* SpecSync: the four handlers of the cloud App that mirror a local change to
   the remote store, and the settling of their awaits *)

SyncDrafts ==
    [id : {""} \cup TaskIds, projectId : {Str(""), Str("p1")}, title : {<<" ", "a", " ">>},
     status : {"Todo"}, updatedAt : {0}]

SyncProjects == [id : {"p1"}, name : {<<"W">>}]

InitSync == Seeded({<<>>}, {<<>>}, {"cloud"})

NextSync ==
    \/ \E task \in SyncDrafts, fresh \in TaskIds : SaveTask(task, fresh)
    \/ \E id \in TaskIds : DeleteTask(id)
    \/ \E p \in SyncProjects : ProjectSave(p)
    \/ \E id \in {"p1"} : ProjectDelete(id)
    \/ Settle

SpecSync == InitSync /\ [][NextSync]_vars

\* the local change an async handler stands for is in the lists
Committed(op, ts, ps) ==
    CASE op.h = "saveTask" -> \E k \in 1..Len(ts) : ts[k].id = op.id
      [] op.h = "deleteTask" -> \A k \in 1..Len(ts) : ts[k].id # op.id
      [] op.h = "saveProject" -> \E k \in 1..Len(ps) : ps[k].id = op.id
      [] OTHER -> /\ \A k \in 1..Len(ps) : ps[k].id # op.id
                  /\ \A k \in 1..Len(ts) : ts[k].projectId # Str(op.id)

(* C10: for task save, task delete, project save and project delete the local
   lists hold the change when the handler reaches its first await, before any
   remote call; and no settling of the session lookup or of the remote call,
   failure included, changes the local lists: the handler just completes. *)
C10_LocalFirstNeverReverted ==
    [][/\ Len(pend') > Len(pend) => Committed(pend'[Len(pend')], tasks', projects')
       /\ \A i \in 1..Len(pend) :
            \A o \in {"throws", "resolved", "ok", "error", "lookup throws"} :
                (SessionStep(i, o) \/ RemoteStep(i, o)) =>
                    /\ tasks' = tasks /\ projects' = projects
                    /\ o \in {"throws", "error", "lookup throws"} =>
                          /\ pend' = RemoveAt(pend, i)
                          /\ ev'.notes = AfterTry(pend[i])]_vars

\* a remote upsert was just answered with an error and the saved task is still listed
C10_Witness ==
    /\ ev.op = "upsertTask" /\ ev.out = "error"
    /\ Len(ev.calls) = 1
    /\ \E k \in 1..Len(tasks) : tasks[k].id = ev.id /\ tasks[k].title = <<"a">>
    /\ Len(ev.notes) = 1


-----------------------------------------------------------------------------
(* SpecBoot: the App booted from what an earlier session left in
   localStorage, used, reloaded and booted again, with storage that always
   takes a write (quota "free") or may refuse one (quota "tight") *)

MaxBoots == 3

\* what the tasks key may hold at boot: nothing, text that does not parse, the
\* text of a non-array, or a task list written by an earlier version
BootTasks ==
    {[id |-> "t1", projectId |-> p, title |-> <<"a">>, status |-> "Todo", updatedAt |-> 0] :
        p \in {Undefined, Str("p1")}}
BootItems ==
    {[kind |-> k, val |-> <<>>] : k \in {"absent", "corrupt", "object"}}
        \cup {StoredArray(l) : l \in SeqsUpTo(BootTasks, 1)}

InitBoot ==
    /\ variant \in Variants /\ mounted = "no"
    /\ tasks = <<>> /\ projects = <<>> /\ draft = EMPTY_TASK
    /\ quota \in {"free", "tight"} /\ session = "none"
    /\ rt = "off" /\ pdraft = "null"
    /\ pend = <<>> /\ now = 1 /\ ev = NoEvent
    /\ \E item \in SchemaItems, t \in BootItems :
          ls = [schema |-> item, tasks |-> t, projects |-> StoredArray(<<>>), notify |-> NoSettings]
    /\ pf = [fn |-> "boot", boots |-> 0, rewrites |-> 0]

\* The App function run for the first render, lines 726-738 (cloud) and
\* 1536-1540 (local-only): the lists are loaded, the cloud App passes them
\* through runMigrations and saves a rewritten task list, and after the render
\* the two persistence effects write both lists.  A throw of runMigrations or
\* of the render (tasks.map on a non-array, line 747) leaves nothing mounted.
Boot ==
    /\ mounted = "no" /\ pf.boots < MaxBoots
    /\ \E okS \in WriteOutcomes, okM \in WriteOutcomes, okT \in WriteOutcomes, okP \in WriteOutcomes :
          LET t0 == loadLS(ls, "tasks", JSArray(<<>>))
              p0 == loadLS(ls, "projects", JSArray(<<>>))
              m == IF variant = "cloud" THEN runMigrations(t0, p0, ls, okS)
                   ELSE NoThrow(t0, p0, FALSE, ls, FALSE)
              s1 == IF m.fresh THEN saveLS(m.store, "tasks", m.tasks, okM) ELSE m.store
          IN IF m.threw \/ ~m.tasks.arr
             THEN /\ UNCHANGED <<mounted, tasks, projects>>
                  /\ ls' = IF m.threw THEN m.store ELSE s1
                  /\ ev' = Ev("boot", "", "crashed", <<>>, <<>>)
                  /\ pf' = [pf EXCEPT !.boots = @ + 1]
             ELSE /\ mounted' = "yes"
                  /\ tasks' = m.tasks.items /\ projects' = m.projects.items
                  /\ ls' = saveLS(saveLS(s1, "tasks", m.tasks, okT), "projects", m.projects, okP)
                  /\ ev' = Ev("boot", "", IF m.fresh THEN "migrated" ELSE "loaded", <<>>, <<>>)
                  /\ pf' = [pf EXCEPT !.boots = @ + 1,
                                      !.rewrites = IF m.fresh THEN @ + 1 ELSE @]
    /\ UNCHANGED <<variant, draft, quota, session, rt, pdraft, pend, now>>

\* the page is reloaded: the component state is gone, localStorage stays
Reload ==
    /\ Mounted
    /\ mounted' = "no" /\ tasks' = <<>> /\ projects' = <<>>
    /\ draft' = EMPTY_TASK /\ pdraft' = "null" /\ pend' = <<>>
    /\ ev' = NoEvent
    /\ UNCHANGED <<variant, ls, quota, session, rt, now, pf>>

NextBoot ==
    \/ Boot
    \/ Reload
    \/ \E id \in TaskIds : OnDropTo("Done", id)

SpecBoot == InitBoot /\ [][NextBoot]_vars

\* the stored counter reads as a number below the target version
BelowTarget(item) == ~SchemaNumber(item).nan /\ SchemaNumber(item).n < SCHEMA_VERSION

(* C8: after the App with the migrator boots with a stored schema version
   below 2, the stored version counter equals 2 and the task list held in
   local storage is the migrated task list; over any number of later boots
   the task rewrite is performed at most once. *)
C8_BootMigratesOnce ==
    [][(Boot /\ variant = "cloud" /\ BelowTarget(ls.schema) /\ mounted' = "yes") =>
          LET t0 == loadLS(ls, "tasks", JSArray(<<>>)) IN
          /\ ls'.schema = String(SCHEMA_VERSION)
          /\ ls'.tasks = StoredArray([i \in 1..Len(t0.items) |-> migrateTask(t0.items[i])])
          /\ pf'.rewrites <= 1]_vars


-----------------------------------------------------------------------------
(* The notification endpoint, src/unnamed/part_000:1-14 *)

\* a JS value is truthy unless it is undefined, null, "" or 0
Truthy(x) ==
    ~(\/ x.ty \in {"undefined", "null"}
      \/ (x.ty = "string" /\ x.v = "")
      \/ (x.ty = "number" /\ x.v = "0"))

\* a JSON answer: each field "true", "false" or "absent", and the error text
Json(ok, delivered, simulated, error) ==
    [ok |-> ok, delivered |-> delivered, simulated |-> simulated, error |-> error]
\* res.status(s).json(j); the text of such an answer always parses
Res(status, json) == [status |-> status, json |-> json, parses |-> TRUE]

\* req.body: "absent" (undefined), "throws" (reading it throws) or an object
\* with the four fields, undefined where it lacks one
Body(kind, channel, to, subject, message) ==
    [kind |-> kind, channel |-> channel, to |-> to, subject |-> subject, message |-> message]
NoBody(kind) == Body(kind, Undefined, Undefined, Undefined, Undefined)

\* a plausible slip: the fields are checked before the method
handlerFieldsFirst(req) ==
    IF req.body.kind = "throws" THEN Res(500, Json("false", "absent", "absent", "Server error"))
    ELSE IF ~Truthy(req.body.channel) \/ ~Truthy(req.body.to)
             \/ ~Truthy(req.body.subject) \/ ~Truthy(req.body.message)
    THEN Res(400, Json("false", "absent", "absent", "Missing fields"))
    ELSE IF req.method # "POST"
    THEN Res(405, Json("false", "absent", "absent", "Method Not Allowed"))
    ELSE Res(200, Json("true", "false", "true", "absent"))

handler(req) ==
    IF req.method # "POST"
    THEN Res(405, Json("false", "absent", "absent", "Method Not Allowed"))
    ELSE IF req.body.kind = "throws"
    THEN Res(500, Json("false", "absent", "absent", "Server error"))
    ELSE LET b == IF req.body.kind = "absent" THEN NoBody("object") ELSE req.body IN
         IF ~Truthy(b.channel) \/ ~Truthy(b.to) \/ ~Truthy(b.subject) \/ ~Truthy(b.message)
         THEN Res(400, Json("false", "absent", "absent", "Missing fields"))
         ELSE Res(200, Json("true", "false", "true", "absent"))

-----------------------------------------------------------------------------
(* Notifications, src/src/App.jsx:53-77 and 928-970 *)

ENV_NOTIFY_DEFAULTS == [email |-> "ops@example.com", whatsapp |-> "+9665xxxxxxx"]

\* getNotifyDefaults(): reading a field of null throws, any other loaded value
\* without the field gives undefined, which like "" yields the default
getNotifyDefaults(store) ==
    LET v == loadLS(store, "notify", JSSettings("", "")) IN
    IF IsNull(v) THEN [threw |-> TRUE, email |-> "", whatsapp |-> ""]
    ELSE [threw |-> FALSE,
          email |-> IF IsSettings(v) THEN Or(v.email, ENV_NOTIFY_DEFAULTS.email)
                    ELSE ENV_NOTIFY_DEFAULTS.email,
          whatsapp |-> IF IsSettings(v) THEN Or(v.whatsapp, ENV_NOTIFY_DEFAULTS.whatsapp)
                       ELSE ENV_NOTIFY_DEFAULTS.whatsapp]

\* what fetch("/api/notify") may come to: a rejection, the answer of the
\* reference handler, or what another server or a proxy answers
Fetches == {"rejects", "handler", "502", "404 html", "200 html", "201"}
fetch(how, req) ==
    CASE how = "handler" -> handler(req)
      [] how = "502" -> Res(502, Json("false", "absent", "absent", "Bad Gateway"))
      [] how = "404 html" -> [Res(404, Json("absent", "absent", "absent", "")) EXCEPT !.parses = FALSE]
      [] how = "200 html" -> [Res(200, Json("absent", "absent", "absent", "")) EXCEPT !.parses = FALSE]
      [] OTHER -> Res(201, Json("true", "true", "absent", "absent"))

\* r.ok
ResponseOk(r) == r.status >= 200 /\ r.status <= 299

Simulated == Json("true", "absent", "true", "absent")

\* a plausible slip: a failed request is reported as failed
sendResultFailing(how, r) ==
    IF how = "rejects" \/ ~ResponseOk(r) \/ ~r.parses
    THEN Json("false", "absent", "absent", "absent") ELSE r.json

\* what the try block of sendNotification returns, the catch included
sendResult(how, r) ==
    IF how = "rejects" \/ ~ResponseOk(r) \/ ~r.parses THEN Simulated ELSE r.json

\* to || (channel === "email" ? d.email : channel === "whatsapp" ? d.whatsapp : undefined)
targetOf(channel, to, d) ==
    IF Truthy(to) THEN to
    ELSE IF channel = Str("email") THEN Str(d.email)
    ELSE IF channel = Str("whatsapp") THEN Str(d.whatsapp)
    ELSE Undefined

MaxCalls == 2

\* sendNotification({channel, to, subject, message}) run to its end; pf holds
\* the number of POSTs it made, whether its promise rejected and its result.
SendNotification(channel, to, subject, message, how) ==
    /\ pf.fn = "sendNotification" /\ pf.calls < MaxCalls
    /\ LET d == getNotifyDefaults(ls) IN
       IF d.threw
       THEN pf' = [pf EXCEPT !.calls = @ + 1, !.posts = 0, !.raised = TRUE,
                             !.how = how, !.result = Json("absent", "absent", "absent", "absent")]
       ELSE LET req == [method |-> "POST",
                        body |-> Body("object", channel, targetOf(channel, to, d), subject, message)]
                r == fetch(how, req)
            IN pf' = [pf EXCEPT !.calls = @ + 1, !.posts = 1, !.raised = FALSE,
                                !.how = how, !.result = sendResult(how, r),
                                !.status = IF how = "rejects" THEN 0 ELSE r.status]
    /\ ev' = Ev("sendNotification", "", how, <<>>, <<>>)
    /\ UNCHANGED <<variant, mounted, tasks, projects, draft, ls, quota, session, rt, pdraft, pend, now>>

\* Settings.save: setNotifyDefaults(form), lines 61-65 and 639
SettingsSave(form) ==
    /\ Mounted
    /\ LET d == getNotifyDefaults(ls) IN
       IF d.threw THEN ls' = ls /\ ev' = Ev("save", "", "threw", <<>>, <<>>)
       ELSE /\ \E ok \in WriteOutcomes :
                  ls' = saveLS(ls, "notify", JSSettings(form.email, form.whatsapp), ok)
            /\ ev' = Ev("save", "", "saved", <<>>, <<>>)
    /\ UNCHANGED <<variant, mounted, tasks, projects, draft, quota, session, rt, pdraft, pend, now, pf>>


-----------------------------------------------------------------------------
(* SpecNotify: sendNotification called with what localStorage holds under the
   settings key, against a network that may fail and servers that may answer
   anything, while the settings are saved from the Settings tab *)

SettingsForms == [email : {"", "a@x"}, whatsapp : {"", "+1"}]

\* what the settings key may hold: nothing, text that does not parse, or the
\* object setNotifyDefaults stored (nothing in the App stores another value)
NotifyItems ==
    {[kind |-> k, email |-> "", whatsapp |-> ""] : k \in {"absent", "corrupt"}}
        \cup {JSONstringify(JSSettings(f.email, f.whatsapp)) : f \in SettingsForms}

Channels == {Str("email"), Str("whatsapp"), Str("sms")}
Recipients == {Undefined, Str("x@y")}

InitNotify ==
    /\ variant \in Variants /\ mounted = "yes"
    /\ tasks = <<>> /\ projects = <<>> /\ draft = EMPTY_TASK
    /\ quota = "free" /\ session = "none"
    /\ rt = "off" /\ pdraft = "null"
    /\ pend = <<>> /\ now = 1 /\ ev = NoEvent
    /\ \E item \in NotifyItems :
          ls = [schema |-> "absent", tasks |-> StoredArray(<<>>),
                projects |-> StoredArray(<<>>), notify |-> item]
    /\ pf = [fn |-> "sendNotification", calls |-> 0, posts |-> 0, raised |-> FALSE,
             how |-> "", status |-> 0, result |-> Json("absent", "absent", "absent", "absent")]

NextNotify ==
    \/ \E channel \in Channels, to \in Recipients, how \in Fetches :
          SendNotification(channel, to, Str("s"), Str("m"), how)
    \/ \E form \in SettingsForms : SettingsSave(form)

SpecNotify == InitNotify /\ [][NextNotify]_vars

\* the request of the last call failed or was answered with a status outside 2xx
RequestFailed == pf.how = "rejects" \/ pf.status < 200 \/ pf.status > 299

(* C11: every call of sendNotification makes exactly one POST and never
   raises; when the request fails or the response status is not 2xx it
   resolves with ok true and simulated true. *)
C11_NotifyOncePostNeverRaises ==
    [][\A channel \in Channels, to \in Recipients, how \in Fetches :
          SendNotification(channel, to, Str("s"), Str("m"), how) =>
              /\ pf'.posts = 1
              /\ ~pf'.raised
              /\ RequestFailed' => (pf'.result.ok = "true" /\ pf'.result.simulated = "true")]_vars

C11_Witness ==
    /\ pf.fn = "sendNotification" /\ pf.calls >= 1
    /\ pf.how = "502" /\ pf.posts = 1 /\ ~pf.raised
    /\ pf.result = Simulated


-----------------------------------------------------------------------------
(* SpecHandler: the notification endpoint answering one request *)

Methods == {"GET", "POST", "PUT"}
FieldValues == {Undefined, Str(""), Str("x")}
Requests ==
    [method : Methods,
     body : {NoBody("absent"), NoBody("throws")}
              \cup {Body("object", c, t, s, m) : c \in FieldValues, t \in FieldValues,
                                                 s \in FieldValues, m \in FieldValues}]

InitHandler ==
    /\ variant = "cloud" /\ mounted = "no"
    /\ tasks = <<>> /\ projects = <<>> /\ draft = EMPTY_TASK
    /\ ls = EmptyLS /\ quota = "free" /\ session = "none"
    /\ rt = "off" /\ pdraft = "null"
    /\ pend = <<>> /\ now = 1 /\ ev = NoEvent
    /\ \E req \in Requests :
          pf = [fn |-> "handler", req |-> req, answered |-> FALSE,
                res |-> Res(0, Json("absent", "absent", "absent", ""))]

Handle ==
    /\ pf.fn = "handler" /\ ~pf.answered
    /\ pf' = [pf EXCEPT !.answered = TRUE, !.res = handler(pf.req)]
    /\ ev' = Ev("handler", "", "answered", <<>>, <<>>)
    /\ UNCHANGED <<variant, mounted, tasks, projects, draft, ls, quota, session, rt, pdraft, pend, now>>

NextHandler == Handle

SpecHandler == InitHandler /\ [][NextHandler]_vars

\* the request body can be read and lacks a field, or holds it empty
LacksField(b) ==
    /\ b.kind # "throws"
    /\ \/ b.kind = "absent"
       \/ \E x \in {b.channel, b.to, b.subject, b.message} : x \in {Undefined, Str("")}

\* the request body holds a non-empty text in each of the four fields
HasAllFields(b) ==
    /\ b.kind = "object"
    /\ \A x \in {b.channel, b.to, b.subject, b.message} : x.ty = "string" /\ x.v # ""

(* C12: the notification endpoint answers every non-POST request with 405,
   whatever its body; every POST request lacking any of channel, to, subject
   or message (absent or empty) with 400; and every POST request carrying all
   four with 200 and the body {ok:true, delivered:false, simulated:true}. *)
C12_HandlerStatusCodes ==
    (pf.fn = "handler" /\ pf.answered) =>
        /\ pf.req.method # "POST" => pf.res.status = 405
        /\ (pf.req.method = "POST" /\ LacksField(pf.req.body)) => pf.res.status = 400
        /\ (pf.req.method = "POST" /\ HasAllFields(pf.req.body)) =>
              /\ pf.res.status = 200
              /\ pf.res.json = Json("true", "false", "true", "absent")

C12_Witness ==
    /\ pf.fn = "handler" /\ pf.answered
    /\ pf.req.method = "POST" /\ HasAllFields(pf.req.body)
    /\ pf.res.status = 200


-----------------------------------------------------------------------------
(* SpecLoad: loadLS called on the task key and on the settings key, whatever
   text they hold *)

LoadTaskItems ==
    {[kind |-> k, val |-> <<>>] : k \in {"absent", "empty", "corrupt", "object"}}
        \cup {StoredArray(l) : l \in SeqsUpTo(BootTasks, 1)}
LoadNotifyItems ==
    NotifyItems \cup {[kind |-> k, email |-> "", whatsapp |-> ""] : k \in {"empty", "null"}}

\* the fallbacks the App passes: [] and {}
Fallbacks == {JSArray(<<>>), JSSettings("", "")}

InitLoad ==
    /\ variant \in Variants /\ mounted = "no"
    /\ tasks = <<>> /\ projects = <<>> /\ draft = EMPTY_TASK
    /\ quota = "free" /\ session = "none"
    /\ rt = "off" /\ pdraft = "null"
    /\ pend = <<>> /\ now = 1 /\ ev = NoEvent
    /\ \E t \in LoadTaskItems, n \in LoadNotifyItems :
          ls = [schema |-> "absent", tasks |-> t, projects |-> StoredArray(<<>>), notify |-> n]
    /\ pf = [fn |-> "loadLS", loaded |-> FALSE, key |-> "", fallback |-> NonArray, value |-> NonArray]

LoadLS(k, f) ==
    /\ pf.fn = "loadLS"
    /\ pf' = [pf EXCEPT !.loaded = TRUE, !.key = k, !.fallback = f, !.value = loadLS(ls, k, f)]
    /\ ev' = Ev("loadLS", k, "returned", <<>>, <<>>)
    /\ UNCHANGED <<variant, mounted, tasks, projects, draft, ls, quota, session, rt, pdraft, pend, now>>

NextLoad == \E k \in {"tasks", "notify"}, f \in Fallbacks : LoadLS(k, f)

SpecLoad == InitLoad /\ [][NextLoad]_vars

\* the value a stored JSON text stands for
ValueOfText(item) ==
    CASE item.kind = "array" -> [arr |-> TRUE, items |-> item.val]
      [] item.kind = "object" -> [arr |-> FALSE, items |-> <<>>]
      [] item.kind = "null" -> [arr |-> FALSE, items |-> <<>>, nul |-> TRUE]
      [] OTHER -> [arr |-> FALSE, items |-> <<>>, email |-> item.email, whatsapp |-> item.whatsapp]

(* C13: loadLS(key, fallback) never raises; it returns the parsed stored
   value when the key holds parsable JSON and the fallback when the key is
   absent or its content cannot be parsed. *)
C13_LoadNeverRaises ==
    (pf.fn = "loadLS" /\ pf.loaded) =>
        LET item == ls[pf.key] IN
        /\ pf.value # Raised
        /\ item.kind \in {"absent", "empty", "corrupt"} => pf.value = pf.fallback
        /\ item.kind \in {"array", "object", "null", "settings"} => pf.value = ValueOfText(item)

C13_Witness ==
    /\ pf.fn = "loadLS" /\ pf.loaded
    /\ ls[pf.key].kind = "corrupt" /\ pf.value = pf.fallback


-----------------------------------------------------------------------------
(* SpecUnique: the task list under saves, deletes, lane drops, project
   deletes and the realtime feed, from every list with unique ids *)

UniqueTaskSeeds ==
    UniqueLists([id : TaskIds, projectId : {Str("")}, title : {<<"a">>},
                 status : {"Todo"}, updatedAt : {0}])

\* the draft of a new task (no id) or of a task being edited, whose id may
\* meanwhile have left the list
UniqueDrafts ==
    [id : {""} \cup TaskIds, projectId : {Str(""), Str("p1")}, title : {<<"b">>},
     status : {"Todo"}, updatedAt : {0}]

UniqueRows ==
    [id : TaskIds, project_id : {Str("p1")}, title : {<<"c">>}, status : {"Done"}, updated_at : {0}]

InitUnique == Seeded(UniqueTaskSeeds, {<<>>, <<[id |-> "p1", name |-> <<"W">>]>>}, Variants)

NextUnique ==
    \/ \E task \in UniqueDrafts, fresh \in TaskIds : SaveTask(task, fresh)
    \/ \E id \in TaskIds : DeleteTask(id)
    \/ \E id \in TaskIds : OnDropTo("Blocked", id)
    \/ ProjectDelete("p1")
    \/ \E e \in EventTypes, row \in UniqueRows : RealtimeTasks(e, row)
    \/ Settle

SpecUnique == InitUnique /\ [][NextUnique]_vars

(* C14: task ids are unique within the task list in every reachable state:
   from a list with unique ids, no sequence of task saves, task deletes, lane
   drops, project deletes and realtime INSERT/UPDATE/DELETE events produces
   two tasks with the same id. *)
C14_TaskIdsUnique ==
    \A i, j \in 1..Len(tasks) : tasks[i].id = tasks[j].id => i = j

C14_Witness ==
    /\ Len(tasks) = 2
    /\ ev.op = "saveTask" /\ ev.out = "saved"
    /\ \E i \in 1..2 : tasks[i].id = ev.id /\ tasks[i].title = <<"b">>


-----------------------------------------------------------------------------
(* SpecStatus: task statuses under saves, lane drops, cloud loads and the
   realtime feed, the remote rows holding whatever the remote table holds *)

\* The sign-in listener, lines 759-768: on an auth event with a user both
\* tables are fetched and replace the lists; a failed fetch rejects the
\* listener's promise before either list is set.
\* a plausible slip: the fetched list is merged into the local one
loadedListMerged(prev, fetched) ==
    prev \o SelectSeq(fetched, LAMBDA x : \A i \in 1..Len(prev) : prev[i].id # x.id)

\* setProjects(cp); setTasks(ct): the fetched list is the new list
loadedList(prev, fetched) == fetched

CloudLoad(outcome, prows, trows) ==
    /\ Mounted /\ variant = "cloud" /\ session = "user"
    /\ IF outcome = "error"
       THEN /\ UNCHANGED <<tasks, projects, ls>>
            /\ ev' = Ev("cloud load", "", "rejected", <<>>, <<"fetchProjects", "fetchTasks">>)
       ELSE /\ projects' = loadedList(projects, [i \in 1..Len(prows) |-> rowToProject(prows[i])])
            /\ tasks' = loadedList(tasks, [i \in 1..Len(trows) |-> rowToTask(trows[i])])
            /\ PersistEffects(TRUE, TRUE)
            /\ ev' = Ev("cloud load", "", "loaded", <<>>, <<"fetchProjects", "fetchTasks">>)
    /\ UNCHANGED <<variant, mounted, draft, quota, session, rt, pdraft, pend, now, pf>>

StatusTaskSeeds ==
    UniqueLists([id : TaskIds, projectId : {Str("")}, title : {<<"a">>},
                 status : {"Todo", "Done"}, updatedAt : {0}])

\* the status select of the task form offers STATUSES; a draft may lack one
StatusDrafts ==
    [id : {"", "t1"}, projectId : {Str("")}, title : {<<"b">>},
     status : {"", "In Progress"}, updatedAt : {0}]

\* remote rows: no status, a listed one, or one the App does not list
StatusRows ==
    [id : TaskIds, project_id : {Null}, title : {<<"c">>},
     status : {"", "Blocked", "Review"}, updated_at : {0}]

InitStatus == Seeded(StatusTaskSeeds, {<<>>}, {"cloud"})

NextStatus ==
    \/ \E task \in StatusDrafts, fresh \in TaskIds : SaveTask(task, fresh)
    \/ \E status \in {"Blocked", "Done"}, id \in TaskIds : OnDropTo(status, id)
    \/ \E outcome \in {"error", "loaded"}, trows \in SeqsUpTo(StatusRows, 1) :
          CloudLoad(outcome, <<>>, trows)
    \/ \E e \in {"INSERT", "UPDATE"}, row \in StatusRows : RealtimeTasks(e, row)
    \/ Settle

SpecStatus == InitStatus /\ [][NextStatus]_vars

(* C15: in every reachable state every task in the task list has a status
   that is one of Todo, In Progress, Blocked, Done, whatever saves, lane
   drops, cloud loads and realtime INSERT/UPDATE events produced the state. *)
C15_StatusEnumerated ==
    \A i \in 1..Len(tasks) : tasks[i].status \in StatusSet


-----------------------------------------------------------------------------
(* Backup and restore, src/src/App.jsx:644-666 and 696 *)

\* JSON.parse(localStorage.getItem(k) || dflt)
parseOr(item, dflt) == IF item.kind \in {"absent", "empty"} THEN dflt ELSE JSONparse(item)

\* if (data[k]) ...: arrays and objects are truthy, null is not
TruthyValue(v) == ~IsNull(v)

\* a plausible slip: an empty list in the file is taken for a missing one
importKeyNonEmpty(store, k, v, ok) ==
    IF v.arr /\ v.items = <<>> THEN store
    ELSE IF ok THEN [store EXCEPT ![k] = JSONstringify(v)] ELSE store

\* if (data[k]) localStorage.setItem(k, JSON.stringify(data[k])), when the
\* setItem does not throw
importKey(store, k, v, ok) ==
    IF TruthyValue(v) /\ ok THEN [store EXCEPT ![k] = JSONstringify(v)] ELSE store

NoFile == [tasks |-> NonArray, projects |-> NonArray, notify |-> NonArray]

\* Settings.exportAllToJSON: the three keys are parsed into the payload, whose
\* JSON text is the downloaded file; pf keeps the file and the storage it was
\* taken from.  A key whose text does not parse makes the handler throw.
ExportAllToJSON ==
    /\ Mounted /\ variant = "cloud"
    /\ pf.fn = "backup" /\ ~pf.exported
    /\ LET payload == [tasks |-> parseOr(ls.tasks, JSArray(<<>>)),
                       projects |-> parseOr(ls.projects, JSArray(<<>>)),
                       notify |-> parseOr(ls.notify, JSSettings("", ""))]
       IN IF Raised \in {payload.tasks, payload.projects, payload.notify}
          THEN /\ pf' = pf
               /\ ev' = Ev("export", "", "threw", <<>>, <<>>)
          ELSE /\ pf' = [pf EXCEPT !.exported = TRUE, !.file = payload, !.at = ls]
               /\ ev' = Ev("export", "", "downloaded", <<>>, <<>>)
    /\ UNCHANGED <<variant, mounted, tasks, projects, draft, ls, quota, session, rt, pdraft, pend, now>>

\* The Import JSON input, lines 656-666 and 696: the file is read and parsed
\* and each truthy entry is written; a throwing setItem rejects the import and
\* leaves the earlier writes in place; a resolved import reloads the page.
ImportAllFromJSON ==
    /\ Mounted /\ variant = "cloud"
    /\ pf.fn = "backup" /\ pf.exported /\ pf.imported = "no"
    /\ \E okT \in WriteOutcomes, okP \in WriteOutcomes, okN \in WriteOutcomes :
          LET data == pf.file
              s1 == importKey(ls, "tasks", data.tasks, okT)
              s2 == IF okT THEN importKey(s1, "projects", data.projects, okP) ELSE s1
              s3 == IF okT /\ okP THEN importKey(s2, "notify", data.notify, okN) ELSE s2
          IN /\ ls' = s3
             /\ IF okT /\ okP /\ okN
                THEN /\ pf' = [pf EXCEPT !.imported = "resolved"]
                     /\ ev' = Ev("import", "", "alert: Import complete", <<>>, <<>>)
                     /\ mounted' = "no" /\ tasks' = <<>> /\ projects' = <<>>
                     /\ draft' = EMPTY_TASK /\ pdraft' = "null" /\ pend' = <<>>
                ELSE /\ pf' = [pf EXCEPT !.imported = "rejected"]
                     /\ ev' = Ev("import", "", "alert: Import failed", <<>>, <<>>)
                     /\ UNCHANGED <<mounted, tasks, projects, draft, pdraft, pend>>
    /\ UNCHANGED <<variant, quota, session, rt, now>>

\* what may happen to a stored value outside the App: it is removed or
\* overwritten with text that does not parse
StorageEdit(k, kind) ==
    /\ pf.fn = "backup" /\ pf.exported /\ pf.imported = "no"
    /\ ls' = [ls EXCEPT ![k] = IF k = "notify" THEN [kind |-> kind, email |-> "", whatsapp |-> ""]
                                ELSE [kind |-> kind, val |-> <<>>]]
    /\ ev' = Ev("storage", k, kind, <<>>, <<>>)
    /\ UNCHANGED <<variant, mounted, tasks, projects, draft, quota, session, rt, pdraft, pend, now, pf>>

-----------------------------------------------------------------------------
(* SpecBackup: a backup exported from a running App, the stored values
   changed by the App and from outside, and the backup imported *)

BackupTaskSeeds ==
    SeqsUpTo([id : {"t1"}, projectId : {Str("")}, title : {<<"a">>},
              status : {"Todo"}, updatedAt : {0}], 1)
BackupProjectSeeds == {<<>>, <<[id |-> "p1", name |-> <<"W">>]>>}
BackupDrafts ==
    [id : {"t1"}, projectId : {Str("")}, title : {<<"b">>}, status : {"Done"}, updatedAt : {0}]

InitBackup ==
    /\ variant = "cloud" /\ mounted = "yes"
    /\ tasks \in BackupTaskSeeds /\ projects \in BackupProjectSeeds
    /\ draft = EMPTY_TASK /\ pdraft = "null"
    /\ \E n \in {NoSettings, JSONstringify(JSSettings("a@x", "+1"))} :
          ls = [schema |-> String(SCHEMA_VERSION), tasks |-> StoredArray(tasks),
                projects |-> StoredArray(projects), notify |-> n]
    /\ quota \in {"free", "tight"} /\ session \in {"none", "user"} /\ rt = "off"
    /\ pend = <<>> /\ now = 1 /\ ev = NoEvent
    /\ pf = [fn |-> "backup", exported |-> FALSE, file |-> NoFile, at |-> EmptyLS, imported |-> "no"]

NextBackup ==
    \/ ExportAllToJSON
    \/ ImportAllFromJSON
    \/ \E task \in BackupDrafts : SaveTask(task, "t2")
    \/ ProjectDelete("p1")
    \/ \E form \in {[email |-> "", whatsapp |-> "+2"]} : SettingsSave(form)
    \/ \E k \in {"tasks", "projects", "notify"}, kind \in {"absent", "corrupt"} : StorageEdit(k, kind)
    \/ Settle

SpecBackup == InitBackup /\ [][NextBackup]_vars

\* the fallback the App reads a key with
FallbackOf(k) == IF k = "notify" THEN JSSettings("", "") ELSE JSArray(<<>>)

(* C16: once the exported backup has been imported, the stored tasks,
   projects and notification settings are what they were at export time (a
   key that held nothing then reads as it did then), whatever was done to the
   three stored values between the export and the import. *)
C16_ImportRestoresExport ==
    (pf.fn = "backup" /\ pf.imported = "resolved") =>
        \A k \in {"tasks", "projects", "notify"} :
            /\ loadLS(ls, k, FallbackOf(k)) = loadLS(pf.at, k, FallbackOf(k))
            /\ pf.at[k].kind # "absent" => ls[k] = pf.at[k]

C16_Witness ==
    /\ pf.fn = "backup" /\ pf.imported = "resolved"
    /\ pf.at.tasks = StoredArray(<<>>)
    /\ ev.op = "import"
    /\ ls.tasks = pf.at.tasks /\ ls.projects = pf.at.projects
    /\ pf.at.notify.kind = "settings" /\ ls.notify = pf.at.notify


-----------------------------------------------------------------------------
(* CSV export, src/src/App.jsx:555-567 and 1295-1310.  A text is a sequence
   of tokens: one-character strings, and words that hold none of the
   characters the export treats specially. *)

RECURSIVE Join(_, _)
\* cells.join(sep)
Join(cells, sep) ==
    IF cells = <<>> THEN <<>>
    ELSE IF Len(cells) = 1 THEN cells[1]
    ELSE cells[1] \o <<sep>> \o Join(Tail(cells), sep)

RECURSIVE replaceAll(_, _, _)
\* text.replaceAll(c, by)
replaceAll(text, c, by) ==
    IF text = <<>> THEN <<>>
    ELSE (IF Head(text) = c THEN by ELSE <<Head(text)>>) \o replaceAll(Tail(text), c, by)

\* a plausible slip: line breaks inside a value are kept
escKeepBreaks(v) == <<"\"">> \o replaceAll(v, "\"", <<"\"", "\"">>) \o <<"\"">>

\* esc(v): `"${String(v ?? "").replaceAll('"','""').replaceAll("\n"," ")}"`
esc(v) == <<"\"">> \o replaceAll(replaceAll(v, "\"", <<"\"", "\"">>), "\n", <<" ">>) \o <<"\"">>

\* toCSV(rows), each row the cells of one object in key order
toCSV(headers, rows) ==
    IF rows = <<>> THEN <<>>
    ELSE Join(<<Join([i \in 1..Len(headers) |-> <<headers[i]>>], ",")>>
              \o [r \in 1..Len(rows) |->
                    Join([h \in 1..Len(headers) |-> esc(rows[r][h])], ",")], "\n")

\* the keys of a row of Dashboard.tasksCSV, in insertion order
CSVHeaders ==
    <<"id", "project", "title", "assignee", "priority", "status", "dueDate", "estimateHrs", "updatedAt">>

\* projects.find(p => p.id === id)?.name || ""
projectName(ps, ref) ==
    IF \E k \in 1..Len(ps) : Str(ps[k].id) = ref
    THEN ps[CHOOSE k \in 1..Len(ps) :
                /\ Str(ps[k].id) = ref
                /\ \A j \in 1..(k - 1) : Str(ps[j].id) # ref].name
    ELSE <<>>

\* one row of Dashboard.tasksCSV as texts; the task fields the model does not
\* hold (assignee, priority, dueDate, estimateHrs) are undefined, which
\* String(v ?? "") turns into the empty text
tasksCSV(ts, ps) ==
    [i \in 1..Len(ts) |->
        << <<ts[i].id>>, projectName(ps, ts[i].projectId), ts[i].title, <<>>, <<>>,
           IF ts[i].status = "" THEN <<>> ELSE <<ts[i].status>>, <<>>, <<>>,
           IF ts[i].updatedAt = 0 THEN <<>> ELSE <<String(ts[i].updatedAt)>> >>]

\* the Export CSV button: downloadCSV("tasks.csv", tasksCSV); pf keeps the
\* text of the file and the task list it was made from
DownloadCSV ==
    /\ Mounted /\ pf.fn = "csv"
    /\ pf' = [pf EXCEPT !.done = TRUE, !.of = tasks,
                        !.csv = toCSV(CSVHeaders, tasksCSV(tasks, projects))]
    /\ ev' = Ev("export csv", "", "downloaded", <<>>, <<>>)
    /\ UNCHANGED <<variant, mounted, tasks, projects, draft, ls, quota, session, rt, pdraft, pend, now>>

-----------------------------------------------------------------------------
(* SpecCSV: the CSV export of every task list of up to two tasks whose
   titles may hold quotes and line breaks, before and after deletions *)

CSVTitles == SeqsUpTo({"a", "\"", "\n"}, 2) \ {<<>>}
CSVTaskSeeds ==
    UniqueLists([id : TaskIds, projectId : {Str(""), Str("p1")}, title : CSVTitles,
                 status : {"Todo"}, updatedAt : {1}])

InitCSV ==
    /\ variant \in Variants /\ mounted = "yes"
    /\ projects = <<[id |-> "p1", name |-> <<"W", "\n">>]>>
    /\ tasks \in CSVTaskSeeds
    /\ draft = EMPTY_TASK /\ pdraft = "null"
    /\ ls = [schema |-> IF variant = "cloud" THEN String(SCHEMA_VERSION) ELSE "absent",
             tasks |-> StoredArray(tasks), projects |-> StoredArray(projects),
             notify |-> NoSettings]
    /\ quota = "free" /\ rt = "off"
    /\ session \in IF variant = "cloud" THEN {"none", "user"} ELSE {"none"}
    /\ pend = <<>> /\ now = 1 /\ ev = NoEvent
    /\ pf = [fn |-> "csv", done |-> FALSE, of |-> <<>>, csv |-> <<>>]

NextCSV ==
    \/ DownloadCSV
    \/ \E id \in TaskIds : DeleteTask(id)
    \/ Settle

SpecCSV == InitCSV /\ [][NextCSV]_vars

RECURSIVE SplitLines(_)
\* the lines of a text: its parts between line breaks
SplitLines(text) ==
    IF \A i \in 1..Len(text) : text[i] # "\n" THEN <<text>>
    ELSE LET k == CHOOSE i \in 1..Len(text) :
                      text[i] = "\n" /\ \A j \in 1..(i - 1) : text[j] # "\n"
         IN <<SubSeq(text, 1, k - 1)>> \o SplitLines(SubSeq(text, k + 1, Len(text)))

HeaderLine ==
    <<"id", ",", "project", ",", "title", ",", "assignee", ",", "priority", ",", "status", ",",
      "dueDate", ",", "estimateHrs", ",", "updatedAt">>

\* the export has one header line and then one line per exported task, in
\* list order, each starting with the quoted id of its task
HeaderAndOneLinePerTask ==
    LET lines == SplitLines(pf.csv) IN
    /\ Len(lines) = Len(pf.of) + 1
    /\ lines[1] = HeaderLine
    /\ \A i \in 1..Len(pf.of) : SubSeq(lines[i + 1], 1, 4) = <<"\"", pf.of[i].id, "\"", ",">>

(* C17 as stated: for every N >= 0 the CSV export of N tasks has exactly N+1
   lines, one header line with the fixed column order followed by one line
   per task in list order. *)
C17_CSVLinesAsStated ==
    (pf.fn = "csv" /\ pf.done) => HeaderAndOneLinePerTask

(* C17: for every N >= 1 the CSV export of N tasks has exactly N+1 lines,
   one header line with the fixed column order followed by one line per task
   in list order; the export of no task is the empty text, without a header. *)
C17_CSVLines ==
    (pf.fn = "csv" /\ pf.done) =>
        IF pf.of = <<>> THEN pf.csv = <<>> ELSE HeaderAndOneLinePerTask

C17_Witness ==
    /\ pf.fn = "csv" /\ pf.done /\ Len(pf.of) = 2
    /\ \E i \in 1..2 : \E k \in 1..Len(pf.of[i].title) : pf.of[i].title[k] = "\n"
    /\ Len(SplitLines(pf.csv)) = 3


-----------------------------------------------------------------------------
(* Sign-out, Sync Local -> Cloud and attachments,
   src/src/App.jsx:101, 148-156, 190, 208-217, 703-709 *)

\* the Sign out button, line 190: signOut() ends the session
SignOut ==
    /\ Mounted /\ variant = "cloud" /\ session = "user"
    /\ session' = "none"
    /\ ev' = Ev("signOut", "", "signed out", <<>>, <<>>)
    /\ UNCHANGED <<variant, mounted, tasks, projects, draft, ls, quota, rt, pdraft, pend, now, pf>>

\* if (s?.user) ... / if (!userId) throw ...
gated(s) == s = "user"

\* The Sync Local -> Cloud button, lines 703-709: both stored lists are parsed
\* and every project, then every task, is handed to upsertProject / upsertTask,
\* which look the session up for the user id only; the request numbered `stop`
\* is answered with an error, which ends the handler (stop = 0: none is).
SyncLocalToCloud(stop) ==
    /\ Mounted /\ variant = "cloud"
    /\ LET ts == parseOr(ls.tasks, JSArray(<<>>))
           ps == parseOr(ls.projects, JSArray(<<>>))
       IN IF Raised \in {ts, ps} \/ ~ts.arr \/ ~ps.arr
          THEN /\ stop = 0
               /\ ev' = Ev("sync", "", "threw", <<>>, <<>>)
          ELSE LET all == [i \in 1..Len(ps.items) |->
                              [fn |-> "upsertProject", id |-> ps.items[i].id, user |-> session]]
                          \o [i \in 1..Len(ts.items) |->
                              [fn |-> "upsertTask", id |-> ts.items[i].id, user |-> session]]
               IN /\ stop \in 0..Len(all)
                  /\ ev' = Ev("sync", "", IF stop = 0 THEN "alert: Synced" ELSE "rejected",
                              <<>>, IF stop = 0 THEN all ELSE SubSeq(all, 1, stop))
    /\ UNCHANGED <<variant, mounted, tasks, projects, draft, ls, quota, session, rt, pdraft, pend, now, pf>>

MaxFiles == 2
\* uploads of the task form in flight at once, where a scenario is about
\* overlapping uploads (pf.uploads is what the scenario at hand allows)
MaxUploads == 2

\* the draft of the task form with its attachments
DraftWith(title, attachments) ==
    [id |-> "", projectId |-> Str(""), title |-> title, status |-> "Todo", updatedAt |-> 0,
     attachments |-> attachments]

\* value.attachments || []
attachmentsOf(value) == IF "attachments" \in DOMAIN value THEN value.attachments ELSE <<>>

\* set("attachments", [...(value.attachments || []), uploaded])
withAttachment(value, file, ts) ==
    [attachments |-> Append(attachmentsOf(value), file), updatedAt |-> ts] @@ value

\* a plausible slip: a failed upload still lists the file
uploadFailedListed(value, file, ts) == withAttachment(value, file, ts)

\* catch (e) { console.error(e); alert(...) }: the draft is what it is
uploadFailed(value, file, ts) == value

\* TaskForm.addAttachment(file) up to the upload request, lines 208-212 and
\* 148-152: uploadAttachment looks the session up and throws without a user,
\* otherwise the upload is requested and the handler waits for it, holding
\* the draft (`value`) it was rendered with.
AttachStart(file) ==
    /\ Mounted /\ variant = "cloud"
    /\ pf.fn = "attach" /\ Len(pf.inflight) < pf.uploads
    /\ Len(attachmentsOf(draft)) < MaxFiles
    /\ IF gated(session)
       THEN /\ pf' = [pf EXCEPT !.inflight = Append(@, [value |-> draft, file |-> file])]
            /\ draft' = draft
            /\ ev' = Ev("addAttachment", file, "uploading", <<>>,
                        <<[fn |-> "upload", id |-> file, user |-> session]>>)
       ELSE /\ pf' = pf
            /\ draft' = uploadFailed(draft, file, now)
            /\ ev' = Ev("addAttachment", file, "alert: Upload failed", <<>>, <<>>)
    /\ UNCHANGED <<variant, mounted, tasks, projects, ls, quota, session, rt, pdraft, pend, now>>

\* a plausible slip: the attachment is added to the draft as it is now
setFromCurrent(current, captured) == current

\* `set` spreads the `value` of the render the handler was created in
\* (lines 206, 212), not the draft as it is when the upload settles
setFrom(current, captured) == captured

\* the i-th upload in flight settles, lines 153-155 and 212-216: on an error
\* the alert is raised; on success set("attachments", [...value.attachments,
\* uploaded]) rebuilds the draft from the value the handler holds
AttachEnd(i, outcome) ==
    /\ Mounted /\ pf.fn = "attach" /\ i \in 1..Len(pf.inflight)
    /\ LET h == pf.inflight[i] IN
       IF outcome = "error"
       THEN /\ draft' = uploadFailed(draft, h.file, now)
            /\ ev' = Ev("addAttachment", h.file, "alert: Upload failed", <<>>, <<>>)
       ELSE /\ draft' = withAttachment(setFrom(draft, h.value), h.file, now)
            /\ ev' = Ev("addAttachment", h.file, "attached", <<>>, <<>>)
    /\ pf' = [pf EXCEPT !.inflight = RemoveAt(@, i)]
    /\ UNCHANGED <<variant, mounted, tasks, projects, ls, quota, session, rt, pdraft, pend, now>>

\* the title input of the task form: set("title", v)
EditTitle(title) ==
    /\ Mounted
    /\ draft' = [draft EXCEPT !.title = title, !.updatedAt = now]
    /\ ev' = Ev("edit", "", "title", <<>>, <<>>)
    /\ UNCHANGED <<variant, mounted, tasks, projects, ls, quota, session, rt, pdraft, pend, now, pf>>

-----------------------------------------------------------------------------
(* SpecRemote: every handler that may reach the remote store, with and
   without a session, the user signing out at any moment *)

RemoteTaskSeeds ==
    SeqsUpTo([id : {"t1"}, projectId : {Str("")}, title : {<<"a">>},
              status : {"Todo"}, updatedAt : {0}], 1)
RemoteProjectSeeds == {<<>>, <<[id |-> "p1", name |-> <<"W">>]>>}
Files == {"f1", "f2"}

InitRemote ==
    /\ variant = "cloud" /\ mounted = "yes"
    /\ tasks \in RemoteTaskSeeds /\ projects \in RemoteProjectSeeds
    /\ draft = DraftWith(<<"a">>, <<>>) /\ pdraft = "null"
    /\ ls = [schema |-> String(SCHEMA_VERSION), tasks |-> StoredArray(tasks),
             projects |-> StoredArray(projects), notify |-> NoSettings]
    /\ quota = "free" /\ session \in {"none", "user"}
    /\ rt = IF session = "user" THEN "subscribed" ELSE "off"
    /\ pend = <<>> /\ now = 1 /\ ev = NoEvent
    /\ pf = [fn |-> "attach", inflight |-> <<>>, uploads |-> 1]

NextRemote ==
    \/ SaveTask(DraftWith(<<"b">>, <<>>), "t2")
    \/ DeleteTask("t1")
    \/ ProjectSave([id |-> "p2", name |-> <<"V">>])
    \/ ProjectDelete("p1")
    \/ AttachStart("f1")
    \/ \E i \in 1..MaxUploads, outcome \in {"error", "ok"} : AttachEnd(i, outcome)
    \/ \E stop \in 0..2 : SyncLocalToCloud(stop)
    \/ SignOut
    \/ Settle

SpecRemote == InitRemote /\ [][NextRemote]_vars

(* C18: no remote upsert, remote delete or attachment upload is ever issued
   while there is no authenticated session, be it by a task save, a task
   delete, a project save, a project delete, an attachment addition or the
   Settings Sync Local -> Cloud action. *)
C18_NoRemoteCallWithoutSession ==
    ev.op # "none" => \A i \in 1..Len(ev.calls) : ev.calls[i].user = "user"


-----------------------------------------------------------------------------
(* SpecAttach: files attached to the draft of the task form, signed in or
   not, while the draft is edited and saved and the user signs out *)

InitAttach ==
    /\ variant = "cloud" /\ mounted = "yes"
    /\ tasks = <<>> /\ projects = <<>>
    /\ draft \in {EMPTY_TASK, DraftWith(<<"a">>, <<>>), DraftWith(<<"a">>, <<"f0">>)}
    /\ pdraft = "null"
    /\ ls = [schema |-> String(SCHEMA_VERSION), tasks |-> StoredArray(tasks),
             projects |-> StoredArray(projects), notify |-> NoSettings]
    /\ quota = "free" /\ session \in {"none", "user"}
    /\ rt = IF session = "user" THEN "subscribed" ELSE "off"
    /\ pend = <<>> /\ now = 1 /\ ev = NoEvent
    /\ pf = [fn |-> "attach", inflight |-> <<>>, uploads |-> 1]

NextAttach ==
    \/ \E file \in Files : AttachStart(file)
    \/ \E i \in 1..MaxUploads, outcome \in {"error", "ok"} : AttachEnd(i, outcome)
    \/ \E title \in {<<"a">>, <<"b">>} : EditTitle(title)
    \/ SaveTask(draft, "t1")
    \/ SignOut
    \/ Settle

SpecAttach == InitAttach /\ [][NextAttach]_vars

(* C19: when an attachment upload fails, because there is no session or
   because the object store returns an error, no attachment is added to the
   draft and neither the draft nor the task list is changed. *)
C19_FailedUploadChangesNothing ==
    [][\A file \in Files :
          ((AttachStart(file) /\ session # "user")
             \/ (\E i \in 1..Len(pf.inflight) : AttachEnd(i, "error") /\ pf.inflight[i].file = file)) =>
              /\ attachmentsOf(draft') = attachmentsOf(draft)
              /\ draft' = draft
              /\ tasks' = tasks]_vars

C19_Witness ==
    /\ ev.op = "addAttachment" /\ ev.out = "alert: Upload failed"
    /\ session = "user"
    /\ attachmentsOf(draft) = <<"f1">>
    /\ Len(tasks) = 1


-----------------------------------------------------------------------------
(* SpecProjectForm: the project form's Save and Delete, the name field
   holding whatever was typed *)

ProjectNames == {<<>>, <<" ">>, <<"W">>, <<" ", "W">>}
ProjectDrafts == [id : ProjIds, name : ProjectNames]

InitProjectForm == Seeded({<<>>}, ProjectSeeds, Variants)

NextProjectForm ==
    \/ \E p \in ProjectDrafts : ProjectSave(p)
    \/ \E id \in ProjIds : ProjectDelete(id)
    \/ Settle

SpecProjectForm == InitProjectForm /\ [][NextProjectForm]_vars

(* C20: saving a project whose name is empty or whitespace-only is blocked:
   the project list is left unchanged and no remote upsert is issued. *)
C20_BlankProjectNameBlocked ==
    [][\A p \in ProjectDrafts :
          (IsBlank(p.name) /\ ProjectSave(p)) =>
              /\ projects' = projects
              /\ pend' = pend]_vars


-----------------------------------------------------------------------------
(* SpecTransitions: a task's status changed by the user, on the board or in
   the task form's status dropdown followed by Save *)

TransitionTaskSeeds ==
    {<<[id |-> "t1", projectId |-> Str(""), title |-> <<"a">>, status |-> s, updatedAt |-> 0]>> :
        s \in StatusSet}

\* the draft of the listed task after another status was chosen in the dropdown
TransitionDrafts ==
    [id : {"t1"}, projectId : {Str("")}, title : {<<"a">>}, status : StatusSet, updatedAt : {0, 1}]

InitTransitions == Seeded(TransitionTaskSeeds, {<<>>}, Variants)

NextTransitions ==
    \/ \E task \in TransitionDrafts : SaveTask(task, "t2")
    \/ \E status \in Lanes : OnDropTo(status, "t1")
    \/ Settle
    \/ Tick

SpecTransitions == InitTransitions /\ [][NextTransitions]_vars

\* every notification the handler of this step sends: those it has sent and,
\* when it is suspended at its await, the one it sends after it
NotesOfStep ==
    ev'.notes \o (IF Len(pend') > Len(pend) THEN AfterTry(pend'[Len(pend')]) ELSE <<>>)

(* C21: every status transition of a task made by the user, on a lane or by
   choosing another status in the task form and saving, updates the task's
   last-modified timestamp and fires a status-change notification carrying
   the before/after status pair. *)
C21_TransitionStampsAndNotifies ==
    [][\A i \in 1..Len(tasks) :
          (/\ (\E task \in TransitionDrafts : SaveTask(task, "t2"))
                 \/ (\E status \in Lanes : OnDropTo(status, "t1"))
           /\ Len(tasks') = Len(tasks)
           /\ tasks'[i].id = tasks[i].id
           /\ tasks'[i].status # tasks[i].status) =>
              /\ tasks'[i].updatedAt = now
              /\ \E k \in 1..Len(NotesOfStep) :
                    /\ NotesOfStep[k].kind = "Status"
                    /\ NotesOfStep[k].from = tasks[i].status
                    /\ NotesOfStep[k].to = tasks'[i].status]_vars


(* C22: at boot, when the stored tasks value parses to something that is not
   an array, it is coerced to an array and the boot completes without
   raising, for every stored schema version. *)
C22_BootCoercesNonArray ==
    [][(Boot /\ loadLS(ls, "tasks", JSArray(<<>>)) = NonArray) =>
          /\ mounted' = "yes"
          /\ ev'.out # "crashed"]_vars


-----------------------------------------------------------------------------
(* SpecPersist: the two lists changed by every handler that changes them,
   with a storage that takes every write or may refuse one *)

PersistTask(id, status) ==
    [id |-> id, projectId |-> Str(""), title |-> <<"a">>, status |-> status, updatedAt |-> 0]
PersistRow(id) ==
    [id |-> id, project_id |-> Null, title |-> <<"c">>, status |-> "Done", updated_at |-> 0]
PersistProject(id) == [id |-> id, name |-> <<"W">>]

InitPersist ==
    /\ variant \in Variants /\ mounted = "yes"
    /\ tasks \in {<<>>, <<PersistTask("t1", "Todo")>>}
    /\ projects \in {<<>>, <<PersistProject("p1")>>}
    /\ draft = EMPTY_TASK /\ pdraft = "null"
    /\ ls = [schema |-> IF variant = "cloud" THEN String(SCHEMA_VERSION) ELSE "absent",
             tasks |-> StoredArray(tasks), projects |-> StoredArray(projects),
             notify |-> NoSettings]
    /\ quota \in {"free", "tight"}
    /\ session \in IF variant = "cloud" THEN {"none", "user"} ELSE {"none"}
    /\ rt = IF variant = "cloud" /\ session = "user" THEN "subscribed" ELSE "off"
    /\ pend = <<>> /\ now = 1 /\ ev = NoEvent /\ pf = NoCall

NextPersist ==
    \/ SaveTask(PersistTask("t1", "Blocked"), "t2")
    \/ DeleteTask("t1")
    \/ OnDropTo("Done", "t1")
    \/ ProjectSave(PersistProject("p1"))
    \/ ProjectDelete("p1")
    \/ \E outcome \in {"error", "loaded"} :
          CloudLoad(outcome, <<[id |-> "p1", name |-> <<"R">>]>>, <<PersistRow("t1")>>)
    \/ \E e \in {"INSERT", "DELETE"} : RealtimeTasks(e, PersistRow("t1"))
    \/ RealtimeProjects("UPDATE", [id |-> "p1", name |-> <<"R">>])
    \/ Settle

SpecPersist == InitPersist /\ [][NextPersist]_vars

(* C23: after any change to the in-memory task or project list (a local save,
   a delete, a lane drop, a cloud load or a realtime event), once the
   persistence effect has run with a successful write, the value stored under
   the changed list's key equals that list; with every write successful the
   tasks key equals the task list and the projects key the project list. *)
C23_StoredEqualsMemory ==
    [][/\ tasks' # tasks => ls'.tasks \in {StoredArray(tasks'), ls.tasks}
       /\ projects' # projects => ls'.projects \in {StoredArray(projects'), ls.projects}
       /\ quota = "free" =>
             /\ ls'.tasks = StoredArray(tasks')
             /\ ls'.projects = StoredArray(projects')]_vars

C23_Witness ==
    /\ quota = "free" /\ ev.op = "cloud load" /\ ev.out = "loaded"
    /\ Len(tasks) = 1 /\ tasks[1].title = <<"c">>
    /\ ls.tasks = StoredArray(tasks) /\ ls.projects = StoredArray(projects)


-----------------------------------------------------------------------------
(* SpecRace: task X is saved from the form while a realtime event for the
   same id arrives, in either order *)

RaceTask(id, title) ==
    [id |-> id, projectId |-> Str(""), title |-> title, status |-> "Todo", updatedAt |-> 0]
RaceTaskSeeds ==
    {<<RaceTask("t1", <<"a">>), RaceTask("t2", <<"o">>)>>,
     <<RaceTask("t2", <<"o">>), RaceTask("t1", <<"a">>)>>}
RaceDrafts == {RaceTask("t1", <<"b">>), RaceTask("t1", <<"b", " ">>)}
RaceRows ==
    [id : {"t1"}, project_id : {Null}, title : {<<"c">>}, status : {"Done", ""}, updated_at : {0, 1}]

InitRace == Seeded(RaceTaskSeeds, {<<>>}, {"cloud"})

NextRace ==
    \/ \E task \in RaceDrafts : SaveTask(task, "t3")
    \/ \E e \in {"INSERT", "UPDATE"}, row \in RaceRows : RealtimeTasks(e, row)
    \/ Settle
    \/ Tick

SpecRace == InitRace /\ [][NextRace]_vars

\* the list after `item` took the place of the entry at position i
Replaced(list, i, item) == [list EXCEPT ![i] = item]

(* C24: a local save of task X and a realtime INSERT/UPDATE event for the same
   id X each put their own content at X's position and change nothing else,
   so after both, in either order, the list holds exactly one entry for X, at
   its original position, with the content of the update applied last. *)
C24_SaveAndEventSameId ==
    [][\A i \in 1..Len(tasks) :
          /\ \A task \in RaceDrafts :
                (SaveTask(task, "t3") /\ tasks[i].id = task.id)
                   => tasks' = Replaced(tasks, i, normalize(task, "t3", now))
          /\ \A e \in {"INSERT", "UPDATE"}, row \in RaceRows :
                (RealtimeTasks(e, row) /\ tasks[i].id = row.id)
                   => tasks' = Replaced(tasks, i, rowToTask(row))
          /\ Cardinality({k \in 1..Len(tasks') : tasks'[k].id = tasks[i].id}) = 1]_vars

\* the save of t1 is still waiting for the remote store when the event for
\* t1 is folded in: the entry holds the event's content, at its old position
C24_Witness ==
    /\ Len(pend) = 1 /\ pend[1].h = "saveTask" /\ pend[1].id = "t1"
    /\ ev.op = "realtime tasks" /\ ev.id = "t1"
    /\ Len(tasks) = 2 /\ tasks[2].id = "t1" /\ tasks[2].title = <<"c">>
    /\ tasks[1] = RaceTask("t2", <<"o">>)


-----------------------------------------------------------------------------
(* SpecCloudLoad: tasks and projects saved while signed out, then an auth
   state change delivers a session and the remote tables are fetched *)

\* The auth listener, lines 759-768, called with the session of a sign-in
\* that completes while the App is mounted (the magic link opened in another
\* tab): the client now holds the session, and the listener loads the tables.
SignIn(outcome, prows, trows) ==
    /\ Mounted /\ variant = "cloud" /\ session = "none"
    /\ session' = "user"
    /\ IF outcome = "error"
       THEN /\ UNCHANGED <<tasks, projects, ls>>
            /\ ev' = Ev("cloud load", "", "rejected", <<>>, <<"fetchProjects", "fetchTasks">>)
       ELSE /\ projects' = loadedList(projects, [i \in 1..Len(prows) |-> rowToProject(prows[i])])
            /\ tasks' = loadedList(tasks, [i \in 1..Len(trows) |-> rowToTask(trows[i])])
            /\ PersistEffects(TRUE, TRUE)
            /\ ev' = Ev("cloud load", "", "loaded", <<>>, <<"fetchProjects", "fetchTasks">>)
    /\ UNCHANGED <<variant, mounted, draft, quota, rt, pdraft, pend, now, pf>>

LoadTaskRows ==
    SeqsUpTo([id : {"t1", "t3"}, project_id : {Null}, title : {<<"c">>},
              status : {"Done"}, updated_at : {0}], 1)
LoadProjectRows == SeqsUpTo([id : {"p3"}, name : {<<"R">>}], 1)
LoadTaskSeeds == {<<>>, <<PersistTask("t1", "Todo")>>}
LoadDrafts == {PersistTask("", "Todo"), PersistTask("t1", "Done")}

InitCloudLoad == Seeded(LoadTaskSeeds, {<<>>, <<PersistProject("p1")>>}, {"cloud"})

NextCloudLoad ==
    \/ \E task \in LoadDrafts : SaveTask(task, "t2")
    \/ ProjectSave(PersistProject("p2"))
    \/ \E o \in {"error", "loaded"}, prows \in LoadProjectRows, trows \in LoadTaskRows :
          SignIn(o, prows, trows)
    \/ \E o \in {"error", "loaded"}, prows \in LoadProjectRows, trows \in LoadTaskRows :
          CloudLoad(o, prows, trows)
    \/ SignOut
    \/ Settle

SpecCloudLoad == InitCloudLoad /\ [][NextCloudLoad]_vars

Ids(list) == {list[i].id : i \in 1..Len(list)}

(* C25: when an auth state change delivers a session with a user and both
   fetches succeed, the task list and the project list become exactly the
   fetched lists: what existed only locally is gone from local state, and the
   load hands nothing to the remote store. *)
C25_CloudLoadReplaces ==
    [][\A prows \in LoadProjectRows, trows \in LoadTaskRows :
          (SignIn("loaded", prows, trows) \/ CloudLoad("loaded", prows, trows)) =>
             /\ Len(tasks') = Len(trows)
             /\ \A i \in 1..Len(trows) :
                   /\ tasks'[i].id = trows[i].id
                   /\ tasks'[i].title = trows[i].title
                   /\ tasks'[i].status = trows[i].status
             /\ Len(projects') = Len(prows)
             /\ \A i \in 1..Len(prows) : projects'[i] = [id |-> prows[i].id, name |-> prows[i].name]
             /\ Ids(tasks') \cap (Ids(tasks) \ Ids(trows)) = {}
             /\ Ids(projects') \cap (Ids(projects) \ Ids(prows)) = {}
             /\ pend' = pend
             /\ \A k \in 1..Len(ev'.calls) : ev'.calls[k] \in {"fetchProjects", "fetchTasks"}]_vars

\* t2 was saved while signed out and never sent; after the sign-in's load it
\* is in neither the task list nor the stored list
C25_Witness ==
    /\ session = "user" /\ ev.op = "cloud load" /\ ev.out = "loaded"
    /\ Ids(tasks) = {"t3"} /\ Ids(projects) = {"p3"}
    /\ pend = <<>> /\ ls.tasks = StoredArray(tasks)


-----------------------------------------------------------------------------
(* SpecRealtime: the realtime effect of the cloud App, lines 771-822, from
   the mount on.  The effect starts an async function that awaits the
   session lookup and, given a user, creates and subscribes the channel; the
   effect's cleanup removes the channel its closure holds at that moment.
   pf holds the closure: where the async function is, whether `channel` is
   assigned, and the session the client held when the App mounted. *)

Effect(pc, channel, atMount) ==
    [fn |-> "realtime", pc |-> pc, channel |-> channel, atMount |-> atMount]

\* a plausible slip: the channel is created without looking at the user
hasUserAlways(s) == TRUE

\* const user = session.data.session?.user; if (!user) return;
hasUser(s) == s = "user"

\* `await supabase.auth.getSession()` of the effect settles (lines 774-776)
\* and, given a user, the channel is created and subscribed (lines 778-818);
\* nothing here looks at whether the App is still mounted
RealtimeLookup(outcome) ==
    /\ pf.fn = "realtime" /\ pf.pc = "getSession"
    /\ outcome \in {"throws", "resolved"}
    /\ IF outcome = "resolved" /\ hasUser(session)
       THEN /\ rt' = "subscribed"
            /\ pf' = [pf EXCEPT !.pc = "done", !.channel = "set"]
            /\ ev' = Ev("realtime effect", "", "subscribed", <<>>, <<>>)
       ELSE /\ rt' = rt
            /\ pf' = [pf EXCEPT !.pc = "done"]
            /\ ev' = Ev("realtime effect", "", IF outcome = "throws" THEN "throws" ELSE "no user", <<>>, <<>>)
    /\ UNCHANGED <<variant, mounted, tasks, projects, draft, ls, quota, session, pdraft, pend, now>>

\* The App unmounts: the cleanups of its effects run (lines 767, 821).  The
\* realtime cleanup removes the channel only if `channel` is assigned by now;
\* the component's state is discarded.
Unmount ==
    /\ Mounted /\ pf.fn = "realtime"
    /\ mounted' = "no"
    /\ rt' = IF pf.channel = "set" THEN "off" ELSE rt
    /\ tasks' = <<>> /\ projects' = <<>> /\ draft' = EMPTY_TASK /\ pend' = <<>>
    /\ ev' = Ev("unmount", "", IF pf.channel = "set" THEN "removeChannel" ELSE "nothing to remove", <<>>, <<>>)
    /\ UNCHANGED <<variant, ls, quota, session, pdraft, now, pf>>

RealtimeRows ==
    [id : {"t1"}, project_id : {Null}, title : {<<"c">>}, status : {"Done", "Blocked"}, updated_at : {0}]

InitRealtime ==
    /\ variant = "cloud" /\ mounted = "yes"
    /\ tasks \in {<<>>, <<PersistTask("t1", "Todo")>>} /\ projects = <<>>
    /\ draft = EMPTY_TASK /\ pdraft = "null"
    /\ ls = [schema |-> String(SCHEMA_VERSION), tasks |-> StoredArray(tasks),
             projects |-> StoredArray(projects), notify |-> NoSettings]
    /\ quota = "free"
    /\ session \in {"none", "user"}
    /\ rt = "off"
    /\ pend = <<>> /\ now = 1 /\ ev = NoEvent
    /\ pf = Effect("getSession", "undefined", session)

NextRealtime ==
    \/ \E outcome \in {"throws", "resolved"} : RealtimeLookup(outcome)
    \/ Unmount
    \/ \E o \in {"error", "loaded"}, trows \in SeqsUpTo(RealtimeRows, 1) : SignIn(o, <<>>, trows)
    \/ SignOut
    \/ \E e \in EventTypes, row \in RealtimeRows : RealtimeTasks(e, row)
    \/ \E task \in {PersistTask("t1", "Review"), PersistTask("", "Todo")} : SaveTask(task, "t2")
    \/ Settle

SpecRealtime == InitRealtime /\ [][NextRealtime]_vars

(* C26: after the App unmounts, no realtime channel created by its
   subscription effect remains subscribed, for every interleaving of the
   unmount with the effect's session lookup and channel creation. *)
C26_NoChannelAfterUnmount == mounted = "no" => rt = "off"


(* C27 as stated: the subscription exists only if a session with a user
   existed at the moment the App mounted. *)
C27_SubscribedOnlyIfSessionAtMount ==
    (Mounted /\ rt = "subscribed") => pf.atMount = "user"

(* C27: the subscription is created only by the mount effect's session
   lookup, and only when that lookup resolves with a user: once the lookup
   has settled without a user, a later sign-in creates no subscription for
   the rest of that mount, and no realtime event is folded into local state. *)
C27_SubscribedOnlyAtLookup ==
    [][/\ (rt = "off" /\ rt' = "subscribed") =>
              /\ pf.pc = "getSession" /\ pf'.pc = "done"
              /\ session = "user"
       /\ (Mounted /\ pf.pc = "done" /\ rt = "off") =>
              /\ rt' = "off"
              /\ ev'.op # "realtime tasks"
              /\ \A e \in EventTypes, row \in RealtimeRows : ~RealtimeTasks(e, row)]_vars

\* the lookup found no user, the user signed in afterwards and the tables
\* were loaded; there is no subscription
C27_Witness ==
    /\ Mounted /\ pf.fn = "realtime" /\ pf.atMount = "none" /\ pf.pc = "done"
    /\ session = "user" /\ ev.op = "cloud load" /\ ev.out = "loaded"
    /\ rt = "off"


-----------------------------------------------------------------------------
(* SpecOverwrite: the draft edited, and further files attached, while
   uploads of the task form are in flight *)

InitOverwrite ==
    /\ variant = "cloud" /\ mounted = "yes"
    /\ tasks = <<>> /\ projects = <<>>
    /\ draft \in {DraftWith(<<"a">>, <<>>), DraftWith(<<"a">>, <<"f0">>)}
    /\ pdraft = "null"
    /\ ls = [schema |-> String(SCHEMA_VERSION), tasks |-> StoredArray(tasks),
             projects |-> StoredArray(projects), notify |-> NoSettings]
    /\ quota = "free" /\ session = "user" /\ rt = "subscribed"
    /\ pend = <<>> /\ now = 1 /\ ev = NoEvent
    /\ pf = [fn |-> "attach", inflight |-> <<>>, uploads |-> MaxUploads]

NextOverwrite ==
    \/ \E file \in Files : AttachStart(file)
    \/ \E i \in 1..MaxUploads, outcome \in {"error", "ok"} : AttachEnd(i, outcome)
    \/ \E title \in {<<"a">>, <<"b">>} : EditTitle(title)
    \/ Tick

SpecOverwrite == InitOverwrite /\ [][NextOverwrite]_vars

(* C28: when an attachment upload completes, the draft becomes the draft value
   captured when that upload was started plus the new attachment: whatever
   was changed in the draft while the upload was in flight, an edited field
   or a file attached by another upload, is overwritten. *)
C28_UploadOverwritesDraft ==
    [][\A i \in 1..Len(pf.inflight) :
          AttachEnd(i, "ok") =>
             LET captured == pf.inflight[i].value IN
             /\ draft'.title = captured.title
             /\ draft'.id = captured.id /\ draft'.status = captured.status
             /\ attachmentsOf(draft') = Append(attachmentsOf(captured), pf.inflight[i].file)]_vars

\* f1 was started with title "a"; the title was then edited to "b" and f2
\* started; f1 has completed and the draft shows title "a" again
C28_Witness ==
    /\ ev.op = "addAttachment" /\ ev.out = "attached" /\ ev.id = "f1"
    /\ Len(pf.inflight) = 1 /\ pf.inflight[1].file = "f2"
    /\ pf.inflight[1].value.title = <<"b">>
    /\ draft.title = <<"a">> /\ attachmentsOf(draft) = <<"f1">>


-----------------------------------------------------------------------------
(* SpecReappear: a task opened in the form, removed from the list while the
   draft is open, and the draft saved *)

\* TaskCard onClick, lines 297 and 893: onEdit(task) is setDraft(task)
OnEdit(i) ==
    /\ Mounted /\ i \in 1..Len(tasks)
    /\ draft' = tasks[i]
    /\ ev' = Ev("onEdit", tasks[i].id, "editing", <<>>, <<>>)
    /\ UNCHANGED <<variant, mounted, tasks, projects, ls, quota, session, rt, pdraft, pend, now, pf>>

\* the Delete button of the task form, line 286:
\* {value.id && <button onClick={()=>onDelete(value.id)}>}
FormDelete == \E id \in {draft.id} \ {""} : DeleteTask(id)

ReappearSeeds == {<<RaceTask("t1", <<"a">>), RaceTask("t2", <<"o">>)>>}
ReappearRows ==
    [id : {"t1", "t2"}, project_id : {Null}, title : {<<"o">>}, status : {"Todo"}, updated_at : {0}]

InitReappear ==
    /\ variant = "cloud" /\ mounted = "yes"
    /\ tasks \in ReappearSeeds /\ projects = <<>>
    /\ draft = EMPTY_TASK /\ pdraft = "null"
    /\ ls = [schema |-> String(SCHEMA_VERSION), tasks |-> StoredArray(tasks),
             projects |-> StoredArray(projects), notify |-> NoSettings]
    /\ quota = "free" /\ session \in {"none", "user"}
    /\ rt = IF session = "user" THEN "subscribed" ELSE "off"
    /\ pend = <<>> /\ now = 1 /\ ev = NoEvent
    /\ pf = [fn |-> "attach", inflight |-> <<>>, uploads |-> 1]

NextReappear ==
    \/ \E i \in 1..MaxStored : OnEdit(i)
    \/ SaveTask(draft, "t3")
    \/ FormDelete
    \/ \E row \in ReappearRows : RealtimeTasks("DELETE", row)
    \/ \E trows \in {<<>>, <<RaceTask("t2", <<"o">>)>>} :
          CloudLoad("loaded", <<>>,
                    [k \in 1..Len(trows) |-> [id |-> trows[k].id, project_id |-> Null, title |-> trows[k].title,
                                              status |-> "Todo", updated_at |-> 0]])
    \/ AttachStart("f1")
    \/ \E outcome \in {"error", "ok"} : AttachEnd(1, outcome)
    \/ Settle

SpecReappear == InitReappear /\ [][NextReappear]_vars

(* C29: saving a draft whose id is no longer in the task list (the task was
   deleted locally or by a realtime DELETE, or dropped by a cloud load, while
   the draft was open) appends the draft as a new entry at the end of the
   list, so the deleted task reappears. *)
C29_SavedDraftReappears ==
    [][(/\ SaveTask(draft, "t3")
        /\ ~blankTitle(draft)
        /\ draft.id # "" /\ draft.id \notin Ids(tasks)) =>
            /\ Len(tasks') = Len(tasks) + 1
            /\ SubSeq(tasks', 1, Len(tasks)) = tasks
            /\ tasks'[Len(tasks')].id = draft.id
            /\ tasks'[Len(tasks')].title = trim(draft.title)]_vars

\* t1 was first in the list; it was removed while its draft was open and the
\* draft was saved: t1 is back, now after t2
C29_Witness ==
    /\ ev.op = "saveTask" /\ ev.out = "saved" /\ ev.id = "t1"
    /\ Len(tasks) = 2 /\ tasks[1].id = "t2" /\ tasks[2].id = "t1"


-----------------------------------------------------------------------------
(* SpecIntegrity: tasks saved from a draft whose project was picked in the
   form, projects saved and deleted, the draft staying open meanwhile *)

\* the Project select of the task form, lines 234-235: the options are "" and
\* the listed projects; set("projectId", v)
SetProject(v) ==
    /\ Mounted
    /\ v = "" \/ \E k \in 1..Len(projects) : projects[k].id = v
    /\ draft' = [draft EXCEPT !.projectId = Str(v), !.updatedAt = now]
    /\ ev' = Ev("edit", "", "projectId", <<>>, <<>>)
    /\ UNCHANGED <<variant, mounted, tasks, projects, ls, quota, session, rt, pdraft, pend, now, pf>>

IntegrityTaskSeeds ==
    SeqsUpTo([id : {"t1"}, projectId : {Str(""), Str("p1")}, title : {<<"a">>},
              status : {"Todo"}, updatedAt : {0}], 1)
IntegrityProjectSeeds == {<<>>, <<PersistProject("p1")>>}

InitIntegrity == Seeded(IntegrityTaskSeeds, IntegrityProjectSeeds, Variants)

NextIntegrity ==
    \/ EditTitle(<<"a">>)
    \/ \E v \in {"", "p1", "p2"} : SetProject(v)
    \/ SaveTask(draft, "t2")
    \/ \E id \in {"p1", "p2"} : ProjectSave(PersistProject(id))
    \/ \E id \in {"p1", "p2"} : ProjectDelete(id)
    \/ Settle

SpecIntegrity == InitIntegrity /\ [][NextIntegrity]_vars

(* C30: referential integrity of project references: after any sequence of
   task saves, project saves and project deletes, a task draft possibly open
   across a project delete, every task's project reference is the empty
   string or the id of a project in the project list. *)
C30_ProjectRefsResolve ==
    \A i \in 1..Len(tasks) :
        \/ tasks[i].projectId = Str("")
        \/ \E k \in 1..Len(projects) : tasks[i].projectId = Str(projects[k].id)

=============================================================================
